---- MODULE Spec2Model ----
(***************************************************************************)
(* Transactional stock-and-sale engine of the POS simulation console.      *)
(*                                                                         *)
(* The relational store is modelled table by table (sales, salesitems,     *)
(* shelf_shortage, shelf, inventory) as sets of rows; every handler of     *)
(* the engine is an action translated statement by statement from          *)
(* src/handler/*.py and src/pages/POS.py.                                  *)
(*                                                                         *)
(* Money is counted in mills (1/1000 of the currency unit) so that         *)
(* Python's round(x, 2) is a real rounding step: 2.00 is 2000, 1.125 is    *)
(* 1125 and rounds to 1120.  Dates are the integers YYYYMMDD, which sort   *)
(* like the dates.  NULL is "NULL" in a text column and -1 in a numeric one.                             *)
(***************************************************************************)
EXTENDS Integers, Sequences, FiniteSets, TLC

VARIABLES
    sales,          \* table sales: header rows
    salesitems,     \* table salesitems: line rows
    shelf_shortage, \* table shelf_shortage: shortage ledger
    shelf,          \* table shelf: shelf layers
    inventory,      \* table inventory: warehouse layers
    purchase,       \* tables purchaseorders, purchaseorderitems, poitemcost
    seq,            \* the serial sequences of the tables (last value handed out)
    now,            \* CURRENT_TIMESTAMP, a logical clock
    tx,             \* the open transaction of process_sales_batch (NoTx when none)
    pc,             \* position of the POS main loop inside process_sales_batch
    call            \* the last handler call: its arguments, result and what it read

vars == <<sales, salesitems, shelf_shortage, shelf, inventory, purchase, seq, now, tx, pc,
          call>>

NULL == "NULL"       \* NULL of a text column

NULLINT == 0 - 1     \* NULL of a numeric column (no stored number is negative one)

(***************************************************************************)
(* Bounds of the model.                                                    *)
(***************************************************************************)
MaxLayerQty == 2    \* largest quantity of an initial shelf layer
MaxReqQty == 2      \* largest quantity a cart line requests

(***************************************************************************)
(* The item master (table item) is configuration the engine only reads.    *)
(* sellingprice 2.00 and 1.50; shelf and warehouse thresholds/averages     *)
(* are small so that refills happen within the bounds.                     *)
(***************************************************************************)
Items == {1, 2}

item ==
    [i \in Items |->
        [itemnameenglish |-> IF i = 1 THEN "apple" ELSE "bread",
         sellingprice    |-> IF i = 1 THEN 2000 ELSE 1500,
         shelfthreshold  |-> 2,
         shelfaverage    |-> IF i = 1 THEN 3 ELSE NULLINT,
         threshold       |-> 2,
         averagerequired |-> 3,
         inventorythreshold |-> 2,
         inventoryaverage   |-> 3]]

DiscountRates == {0, 25}

(***************************************************************************)
(* Arithmetic helpers.                                                     *)
(***************************************************************************)
Min(a, b) == IF a <= b THEN a ELSE b

Max(a, b) == IF a >= b THEN a ELSE b

\* n/d rounded to the nearest integer, ties to the even neighbour
\* (Python 3 round() on a value that is exact in binary), n >= 0, d > 0
RoundHalfEven(n, d) ==
    LET q == n \div d
        r == n % d
    IN  IF 2 * r < d THEN q
        ELSE IF 2 * r > d THEN q + 1
        ELSE IF q % 2 = 0 THEN q ELSE q + 1

\* round(n/d, 2) for an amount n/d in mills: the result is a multiple of 10 mills
Round2(n, d) == 10 * RoundHalfEven(n, 10 * d)

RECURSIVE SumQty(_)
SumQty(rows) ==
    IF rows = {} THEN 0
    ELSE LET r == CHOOSE x \in rows : TRUE
         IN  r.quantity + SumQty(rows \ {r})

RECURSIVE SeqSum(_)
SeqSum(s) == IF s = <<>> THEN 0 ELSE Head(s) + SeqSum(Tail(s))

\* all orders in which the rows of a result set can be listed
Perms(S) ==
    {s \in [1..Cardinality(S) -> S] :
        \A i, j \in 1..Cardinality(S) : i # j => s[i] # s[j]}

(***************************************************************************)
(* process_sales_batch: the FIFO depletion of one cart line.               *)
(***************************************************************************)
\* SELECT shelfid, quantity FROM shelf WHERE itemid = %s AND quantity > 0
ShelfRowsOf(tbl, iid) == {r \in tbl : r.itemid = iid /\ r.quantity > 0}

\* ... ORDER BY expirationdate: every listing the store may return; rows
\* with the same expiration date come in an order the query does not fix
FetchShelfFifo(tbl, iid) ==
    {s \in Perms(ShelfRowsOf(tbl, iid)) :
        \A i, j \in 1..Len(s) :
            i < j => s[i].expirationdate <= s[j].expirationdate}

DeleteShelfRowSkipped(tbl, shelfid) == tbl

\* DELETE FROM shelf WHERE shelfid = %s
DeleteShelfRow(tbl, shelfid) == {r \in tbl : r.shelfid # shelfid}

DecrementShelfRowWhole(tbl, shelfid, n) == {r \in tbl : r.shelfid # shelfid}

\* UPDATE shelf SET quantity = quantity - %s WHERE shelfid = %s
DecrementShelfRow(tbl, shelfid, n) ==
    {IF r.shelfid = shelfid THEN [r EXCEPT !.quantity = @ - n] ELSE r : r \in tbl}

\* the for-loop over cur.fetchall(); touched lists, in order, the layer
\* written by each iteration and the quantity taken from it
RECURSIVE DepleteLoop(_, _, _, _, _)
DepleteLoop(tbl, rows, k, remaining, touched) ==
    IF k > Len(rows) \/ remaining = 0
    THEN [shelf |-> tbl, remaining |-> remaining, touched |-> touched]
    ELSE LET shelfid == rows[k].shelfid
             qty     == rows[k].quantity
         IN  IF remaining >= qty
             THEN DepleteLoop(DeleteShelfRow(tbl, shelfid), rows, k + 1,
                              remaining - qty,
                              Append(touched, [shelfid |-> shelfid, take |-> qty]))
             ELSE DepleteLoop(DecrementShelfRow(tbl, shelfid, remaining), rows,
                              k + 1, 0,
                              Append(touched,
                                     [shelfid |-> shelfid, take |-> remaining]))

(***************************************************************************)
(* process_sales_batch: one cart line, one sale, the whole batch.          *)
(* A transaction works on t, its own view of the tables:                   *)
(*   t.sales, t.salesitems, t.shelf_shortage, t.shelf, t.seq               *)
(* and the Python locals of the call are the record b:                     *)
(*   b.saleids, b.items_rows, b.shortage_rows, b.header_updates,           *)
(*   b.log_out, b.trace, b.k                                               *)
(* b.trace keeps, per cart line, what the depletion read and wrote.        *)
(***************************************************************************)
\* SELECT itemnameenglish FROM item WHERE itemid = %s  (.iat[0, 0])
FetchItemName(iid) == item[iid].itemnameenglish

LineAmountFulfilled(req_qty, fulfilled, price) == fulfilled * price

\* the amount one line adds to running_total
LineAmount(req_qty, fulfilled, price) == req_qty * price

LineQuantityFulfilled(req_qty, fulfilled) == fulfilled

\* the quantity recorded on the salesitems row of a line
LineQuantity(req_qty, fulfilled) == req_qty

HasShortageWhenNothingSold(req_qty, remaining) == remaining = req_qty

\* "if remaining > 0": whether the line gets a shortage row
HasShortage(req_qty, remaining) == remaining > 0

\* the body of "for it in sale['cart_items']" for line it of sale sid, when
\* the SELECT returned rows; s is [shelf, items_rows, shortage_rows,
\* running_total, local_items, local_shortages, trace]
ProcessLine(s, sid, it, rows) ==
    LET iid     == it.itemid
        req_qty == it.quantity
        price   == it.sellingprice
        dep     == DepleteLoop(s.shelf, rows, 1, req_qty, <<>>)
        remaining == dep.remaining
        tot_price == Round2(req_qty * price, 1)
        qty_row   == LineQuantity(req_qty, req_qty - remaining)
        short     == HasShortage(req_qty, remaining)
    IN  [shelf |-> dep.shelf,
         items_rows |->
            Append(s.items_rows,
                   [saleid |-> sid, itemid |-> iid, quantity |-> qty_row,
                    unitprice |-> price, totalprice |-> tot_price]),
         shortage_rows |->
            IF short
            THEN Append(s.shortage_rows,
                        [saleid |-> sid, itemid |-> iid, shortage_qty |-> remaining])
            ELSE s.shortage_rows,
         running_total |->
            s.running_total + LineAmount(req_qty, req_qty - remaining, price),
         local_items |->
            Append(s.local_items,
                   [itemid |-> iid, quantity |-> qty_row, unitprice |-> price,
                    totalprice |-> tot_price]),
         local_shortages |->
            IF short
            THEN Append(s.local_shortages,
                        [itemname |-> FetchItemName(iid), qty |-> remaining])
            ELSE s.local_shortages,
         trace |->
            Append(s.trace,
                   [saleid |-> sid, itemid |-> iid, req_qty |-> req_qty,
                    remaining |-> remaining, rows |-> rows,
                    touched |-> dep.touched,
                    before |-> SumQty(ShelfRowsOf(s.shelf, iid)),
                    after |-> SumQty(ShelfRowsOf(dep.shelf, iid))])]

RECURSIVE CartOutcomesLastFirst(_, _, _, _)
CartOutcomesLastFirst(s, sid, cart, k) ==
    IF k > Len(cart) THEN {s}
    ELSE UNION {{ProcessLine(s2, sid, cart[k], rows) :
                    rows \in FetchShelfFifo(s2.shelf, cart[k].itemid)} :
                s2 \in CartOutcomesLastFirst(s, sid, cart, k + 1)}

\* the lines k.. of a cart, each SELECT returning any listing it may return
RECURSIVE CartOutcomes(_, _, _, _)
CartOutcomes(s, sid, cart, k) ==
    IF k > Len(cart) THEN {s}
    ELSE UNION {CartOutcomes(ProcessLine(s, sid, cart[k], rows), sid, cart, k + 1) :
                    rows \in FetchShelfFifo(s.shelf, cart[k].itemid)}

\* disc = round(running_total * discount_rate / 100, 2); final = total - disc
HeaderTotals(running_total, discount_rate, sid) ==
    LET disc == Round2(running_total * discount_rate, 100)
    IN  [totalamount |-> running_total, totaldiscount |-> disc,
         finalamount |-> running_total - disc, saleid |-> sid]

\* step 1: INSERT INTO sales ... VALUES %s RETURNING saleid (placeholders 0/0/0)
InsertHeaders(t, batch) ==
    [t EXCEPT
        !.sales = @ \cup
            {[saleid |-> t.seq.sales + k, totalamount |-> 0,
              discountrate |-> batch[k].discount_rate,
              totaldiscount |-> 0, finalamount |-> 0] : k \in 1..Len(batch)},
        !.seq.sales = @ + Len(batch)]

saleids_of(t, batch) == [k \in 1..Len(batch) |-> t.seq.sales + k]

\* the locals before the loop "for sid, sale in zip(saleids, sales)"
NewLocals(saleids) ==
    [saleids |-> saleids, items_rows |-> <<>>, shortage_rows |-> <<>>,
     header_updates |-> <<>>, log_out |-> <<>>, trace |-> <<>>, k |-> 1]

\* step 2, one iteration of "for sid, sale in zip(saleids, sales)": every
\* pair <<t', b'>> the iteration can end in
SaleOutcomes(t, b, sale) ==
    LET sid == b.saleids[b.k]
        s0  == [shelf |-> t.shelf, items_rows |-> b.items_rows,
                shortage_rows |-> b.shortage_rows, running_total |-> 0,
                local_items |-> <<>>, local_shortages |-> <<>>,
                trace |-> b.trace]
    IN  {<<[t EXCEPT !.shelf = s.shelf],
           [b EXCEPT
               !.items_rows = s.items_rows,
               !.shortage_rows = s.shortage_rows,
               !.header_updates =
                   Append(@, HeaderTotals(s.running_total, sale.discount_rate, sid)),
               !.log_out =
                   Append(@, [saleid |-> sid, items |-> s.local_items,
                              shortages |-> s.local_shortages]),
               !.trace = s.trace,
               !.k = @ + 1]>> : s \in CartOutcomes(s0, sid, sale.cart_items, 1)}

\* step 3a: INSERT INTO salesitems ... VALUES %s  (items_rows)
InsertItems(t, items_rows) ==
    [t EXCEPT
        !.salesitems = @ \cup
            {[salesitemid |-> t.seq.salesitems + n,
              saleid |-> items_rows[n].saleid,
              itemid |-> items_rows[n].itemid,
              quantity |-> items_rows[n].quantity,
              unitprice |-> items_rows[n].unitprice,
              totalprice |-> items_rows[n].totalprice] : n \in 1..Len(items_rows)},
        !.seq.salesitems = @ + Len(items_rows)]

\* step 3b: if shortage_rows: INSERT INTO shelf_shortage (saleid, itemid,
\* shortage_qty) VALUES %s; the other columns take their defaults, logged_at
\* the time of the transaction
InsertShortages(t, shortage_rows, ts) ==
    [t EXCEPT
        !.shelf_shortage = @ \cup
            {[shortageid |-> t.seq.shelf_shortage + n,
              saleid |-> shortage_rows[n].saleid,
              itemid |-> shortage_rows[n].itemid,
              shortage_qty |-> shortage_rows[n].shortage_qty,
              resolved_qty |-> NULLINT, resolved |-> FALSE,
              resolved_by |-> NULL, resolved_at |-> NULLINT,
              logged_at |-> ts] : n \in 1..Len(shortage_rows)},
        !.seq.shelf_shortage = @ + Len(shortage_rows)]

\* step 4: executemany UPDATE sales SET totalamount, totaldiscount,
\* finalamount WHERE saleid = %s
UpdateHeaders(t, header_updates) ==
    [t EXCEPT
        !.sales =
            {IF \E n \in 1..Len(header_updates) : header_updates[n].saleid = r.saleid
             THEN LET u == header_updates[
                              CHOOSE n \in 1..Len(header_updates) :
                                  header_updates[n].saleid = r.saleid]
                  IN  [r EXCEPT !.totalamount = u.totalamount,
                                !.totaldiscount = u.totaldiscount,
                                !.finalamount = u.finalamount]
             ELSE r : r \in @}]

\* the loop "for sid, sale in zip(saleids, sales)" from sale b.k on
RECURSIVE SalesLoop(_, _, _)
SalesLoop(t, b, batch) ==
    IF b.k > Len(batch) THEN {<<t, b>>}
    ELSE UNION {SalesLoop(o[1], o[2], batch) : o \in SaleOutcomes(t, b, batch[b.k])}

\* steps 3 and 4 on the rows the loop has built
WriteRows(t, b, ts) ==
    UpdateHeaders(InsertShortages(InsertItems(t, b.items_rows), b.shortage_rows, ts),
                  b.header_updates)

\* the tables a sale transaction reads and writes, as committed
Committed ==
    [sales |-> sales, salesitems |-> salesitems, shelf_shortage |-> shelf_shortage,
     shelf |-> shelf, seq |-> seq]

\* self.conn.commit(): the transaction's view becomes the store
Commit(t) ==
    /\ sales' = t.sales
    /\ salesitems' = t.salesitems
    /\ shelf_shortage' = t.shelf_shortage
    /\ shelf' = t.shelf
    /\ seq' = t.seq

NoTx == [open |-> FALSE]

\* what a call of process_sales_batch leaves in call
SalesCall(batch, b, pre) ==
    [op |-> "process_sales_batch", sales |-> batch, saleids |-> b.saleids,
     log_out |-> b.log_out, trace |-> b.trace, pre |-> pre, failed |-> FALSE]

\* POSHandler.process_sales_batch(sales), the whole call as one unit of work
process_sales_batch(batch) ==
    /\ pc = "idle"
    /\ IF batch = <<>>
       THEN /\ UNCHANGED <<sales, salesitems, shelf_shortage, shelf, seq, now>>
            /\ call' = SalesCall(batch, NewLocals(<<>>), Committed)
       ELSE \E o \in SalesLoop(InsertHeaders(Committed, batch),
                               NewLocals(saleids_of(Committed, batch)), batch) :
                /\ Commit(WriteRows(o[1], o[2], now))
                /\ now' = now + 1
                /\ call' = SalesCall(batch, o[2], Committed)
    /\ UNCHANGED <<inventory, purchase, tx, pc>>

(***************************************************************************)
(* What the callers submit: batches of at most two sales, carts of at most *)
(* two lines; one behaviour submits MaxSales sales and as many lines as    *)
(* the largest cart holds.                                                 *)
(***************************************************************************)
CartSizes == 0..2

BatchSizes == 0..2

MaxSales == Cardinality(BatchSizes) - 1

MaxLines == Cardinality(CartSizes) - 1

\* a cart line as random_cart builds it: the price is the catalogue's
Lines ==
    {[itemid |-> i, quantity |-> q, sellingprice |-> item[i].sellingprice] :
        i \in Items, q \in 1..MaxReqQty}

SaleSpecs(len) == [cart_items : [1..len -> Lines], discount_rate : DiscountRates]

\* the batches of n sales with at most m lines in all
RECURSIVE Batches(_, _)
Batches(n, m) ==
    IF n = 0 THEN {<<>>}
    ELSE UNION {{<<s>> \o rest : s \in SaleSpecs(len), rest \in Batches(n - 1, m - len)} :
                    len \in {x \in CartSizes : x <= m}}

SalesLeft == MaxSales - Cardinality(sales)

LinesLeft == MaxLines - Cardinality(salesitems)

(***************************************************************************)
(* SpecSale: the sale engine on a stocked shelf.  The shelf starts with    *)
(* any choice of the layers below, each with a quantity 1..MaxLayerQty;    *)
(* two layers of item 1 share an expiration date.                          *)
(***************************************************************************)
LayerKeys ==
    <<[itemid |-> 1, expirationdate |-> 20250101, cost_per_unit |-> 1500, locid |-> "A1"],
      [itemid |-> 1, expirationdate |-> 20250101, cost_per_unit |-> 1600, locid |-> "A1"],
      [itemid |-> 1, expirationdate |-> 20250201, cost_per_unit |-> 1600, locid |-> "A1"],
      [itemid |-> 2, expirationdate |-> 20250101, cost_per_unit |-> 1500, locid |-> "B1"]>>

ShelfOf(q) ==
    {[shelfid |-> n, itemid |-> LayerKeys[n].itemid,
      expirationdate |-> LayerKeys[n].expirationdate,
      cost_per_unit |-> LayerKeys[n].cost_per_unit,
      locid |-> LayerKeys[n].locid, quantity |-> q[n]] :
        n \in {m \in DOMAIN LayerKeys : q[m] > 0}}

InitialShelves == {ShelfOf(q) : q \in [DOMAIN LayerKeys -> 0..MaxLayerQty]}

NoPurchases == [purchaseorders |-> {}, purchaseorderitems |-> {}, poitemcost |-> {}]

Seq0 == [sales |-> 0, salesitems |-> 0, shelf_shortage |-> 0, shelf |-> Len(LayerKeys),
         inventory |-> 0, purchaseorders |-> 0, purchaseorderitems |-> 0,
         poitemcost |-> 0]

InitSale ==
    /\ sales = {}
    /\ salesitems = {}
    /\ shelf_shortage = {}
    /\ shelf \in InitialShelves
    /\ inventory = {}
    /\ purchase = NoPurchases
    /\ seq = Seq0
    /\ now = 1
    /\ tx = NoTx
    /\ pc = "idle"
    /\ call = [op |-> "none"]

NextSale ==
    \E n \in {x \in BatchSizes : x <= SalesLeft} :
        \E batch \in Batches(n, LinesLeft) : process_sales_batch(batch)

SpecSale == InitSale /\ [][NextSale]_vars

(***************************************************************************)
(* SpecPos: the POS main loop (src/pages/POS.py) running one batch through *)
(* process_sales_batch statement by statement.  Every statement may fail   *)
(* (a store failure); the exception leaves process_sales_batch without a   *)
(* commit and the main loop's except branch rolls the connection back.     *)
(* pc is the statement the call executes next.                             *)
(***************************************************************************)
\* the carts random_cart() builds: at least one line, no item twice
RandomCarts ==
    {c \in UNION {[1..n -> Lines] : n \in CartSizes \ {0}} :
        \A i, j \in 1..Len(c) : i # j => c[i].itemid # c[j].itemid}

\* "if cart: pending_sales.append(dict(..., discount_rate=0.0, ...))"
RECURSIVE pending_sales(_)
pending_sales(carts) ==
    IF carts = <<>> THEN <<>>
    ELSE (IF Head(carts) # <<>>
          THEN <<[cart_items |-> Head(carts), discount_rate |-> 0]>>
          ELSE <<>>) \o pending_sales(Tail(carts))

\* the carts due in one rerun: n sales, at most m lines
RECURSIVE DueCarts(_, _)
DueCarts(n, m) ==
    IF n = 0 THEN {<<>>}
    ELSE UNION {{<<c>> \o rest : rest \in DueCarts(n - 1, m - Len(c))} :
                    c \in {x \in RandomCarts : Len(x) <= m}}

\* "if pending_sales: try: POS.process_sales_batch(pending_sales)" up to the
\* cursor being opened
main_loop_begin(carts) ==
    /\ pc = "idle"
    /\ pending_sales(carts) # <<>>
    /\ tx' = [open |-> TRUE, t |-> Committed,
              b |-> NewLocals(saleids_of(Committed, pending_sales(carts))),
              batch |-> pending_sales(carts), pre |-> Committed]
    /\ pc' = "insert_headers"
    /\ UNCHANGED <<sales, salesitems, shelf_shortage, shelf, inventory, purchase, seq, now,
                   call>>

Step(t, b, next) ==
    /\ tx' = [tx EXCEPT !.t = t, !.b = b]
    /\ pc' = next
    /\ UNCHANGED <<sales, salesitems, shelf_shortage, shelf, inventory, purchase, seq, now,
                   call>>

tx_insert_headers ==
    /\ pc = "insert_headers"
    /\ Step(InsertHeaders(tx.t, tx.batch), tx.b, "sale_loop")

\* POSHandler inherits fetch_data from db_handler.DatabaseManager: a read on
\* the handler's connection that leaves the open transaction open
fetch_data_commits == FALSE

\* one sale of the batch; the item-name lookup of a shortage line goes
\* through the inherited fetch_data
tx_sale ==
    /\ pc = "sale_loop"
    /\ tx.b.k <= Len(tx.batch)
    /\ \E o \in SaleOutcomes(tx.t, tx.b, tx.batch[tx.b.k]) :
          /\ tx' = [tx EXCEPT !.t = o[1], !.b = o[2]]
          /\ IF fetch_data_commits /\ o[2].shortage_rows # tx.b.shortage_rows
             THEN Commit(o[1])
             ELSE UNCHANGED <<sales, salesitems, shelf_shortage, shelf, seq>>
    /\ pc' = "sale_loop"
    /\ UNCHANGED <<inventory, purchase, now, call>>

tx_insert_items ==
    /\ pc = "sale_loop"
    /\ tx.b.k > Len(tx.batch)
    /\ Step(InsertItems(tx.t, tx.b.items_rows), tx.b, "insert_shortages")

tx_insert_shortages ==
    /\ pc = "insert_shortages"
    /\ Step(InsertShortages(tx.t, tx.b.shortage_rows, now), tx.b, "update_headers")

tx_update_headers ==
    /\ pc = "update_headers"
    /\ Step(UpdateHeaders(tx.t, tx.b.header_updates), tx.b, "commit")

\* self.conn.commit(); return log_out
tx_commit ==
    /\ pc = "commit"
    /\ Commit(tx.t)
    /\ now' = now + 1
    /\ call' = SalesCall(tx.batch, tx.b, tx.pre)
    /\ tx' = NoTx
    /\ pc' = "idle"
    /\ UNCHANGED <<inventory, purchase>>

\* which tables the abandoned transaction had written to
LostWrites(t, pre) ==
    [sales |-> t.sales # pre.sales, salesitems |-> t.salesitems # pre.salesitems,
     shelf_shortage |-> t.shelf_shortage # pre.shelf_shortage,
     shelf |-> t.shelf # pre.shelf]

RollbackMissing == Commit(tx.t)

\* POS.conn.rollback(): the tables stay as committed; the values the
\* sequences handed out are not given back
Rollback ==
    /\ UNCHANGED <<sales, salesitems, shelf_shortage, shelf>>
    /\ seq' = tx.t.seq

\* a statement raises: "except Exception: POS.conn.rollback(); st.error(...)"
tx_fail ==
    /\ pc # "idle"
    /\ Rollback
    /\ call' = [op |-> "process_sales_batch", pre |-> tx.pre, failed |-> TRUE,
                at |-> pc, lost |-> LostWrites(tx.t, tx.pre)]
    /\ tx' = NoTx
    /\ pc' = "idle"
    /\ UNCHANGED <<inventory, purchase, now>>

NextPos ==
    \/ \E n \in {x \in BatchSizes : x <= MaxSales - seq.sales} :
           \E carts \in DueCarts(n, LinesLeft) : main_loop_begin(carts)
    \/ tx_insert_headers
    \/ tx_sale
    \/ tx_insert_items
    \/ tx_insert_shortages
    \/ tx_update_headers
    \/ tx_commit
    \/ tx_fail

\* one shelf layer per item is enough stock variety for the transaction
InitPos ==
    /\ InitSale
    /\ \A r \in shelf : \A u \in shelf : u.itemid = r.itemid => u = r

SpecPos == InitPos /\ [][NextPos]_vars

(***************************************************************************)
(* The shortage ledger: resolve_shortages of SellingAreaHandler and of      *)
(* ShelfHandler.  Every statement of either runs through execute_command.   *)
(***************************************************************************)
Coalesce(x, d) == IF x = NULLINT THEN d ELSE x

OpenShortages(tbl, iid) == {r \in tbl : r.itemid = iid /\ r.resolved = FALSE}

FetchOpenShortagesUnordered(tbl, iid) == Perms(OpenShortages(tbl, iid))

\* SELECT shortageid, shortage_qty FROM shelf_shortage WHERE itemid = %s AND
\* resolved = FALSE ORDER BY logged_at: every listing the store may return
FetchOpenShortages(tbl, iid) ==
    {s \in Perms(OpenShortages(tbl, iid)) :
        \A i, j \in 1..Len(s) : i < j => s[i].logged_at <= s[j].logged_at}

TakeWhole(remaining, shortage_qty) == shortage_qty

\* take = min(remaining, int(r.shortage_qty))
Take(remaining, shortage_qty) == Min(remaining, shortage_qty)

\* DELETE FROM shelf_shortage WHERE shortageid = %s
DeleteShortage(tbl, id) == {r \in tbl : r.shortageid # id}

\* SellingAreaHandler: UPDATE shelf_shortage SET shortage_qty = shortage_qty - %s,
\* resolved_qty = COALESCE(resolved_qty,0)+%s, resolved_by = %s,
\* resolved_at = CURRENT_TIMESTAMP WHERE shortageid = %s
UpdateShortagePartial(tbl, id, take, user, ts) ==
    {IF r.shortageid = id
     THEN [r EXCEPT !.shortage_qty = @ - take,
                    !.resolved_qty = Coalesce(@, 0) + take,
                    !.resolved_by = user,
                    !.resolved_at = ts]
     ELSE r : r \in tbl}

\* ShelfHandler: UPDATE shelf_shortage SET shortage_qty = shortage_qty - %s,
\* resolved_qty = COALESCE(resolved_qty, 0) + %s,
\* resolved = (shortage_qty - %s = 0),
\* resolved_at = CASE WHEN shortage_qty - %s = 0 THEN CURRENT_TIMESTAMP END,
\* resolved_by = %s WHERE shortageid = %s
UpdateShortage(tbl, id, take, user, ts) ==
    {IF r.shortageid = id
     THEN [r EXCEPT !.shortage_qty = @ - take,
                    !.resolved_qty = Coalesce(@, 0) + take,
                    !.resolved = (r.shortage_qty - take = 0),
                    !.resolved_at = IF r.shortage_qty - take = 0 THEN ts ELSE NULLINT,
                    !.resolved_by = user]
     ELSE r : r \in tbl}

\* the trailing DELETE left out
DeleteZeroShortagesSkipped(tbl) == tbl

\* DELETE FROM shelf_shortage WHERE shortage_qty = 0
DeleteZeroShortages(tbl) == {r \in tbl : r.shortage_qty # 0}

RECURSIVE SellingAreaResolveLoopNoBreak(_, _, _, _, _, _)
SellingAreaResolveLoopNoBreak(tbl, rows, k, remaining, user, ts) ==
    IF k > Len(rows)
    THEN [shelf_shortage |-> tbl, remaining |-> remaining]
    ELSE LET take == Take(remaining, rows[k].shortage_qty)
         IN  SellingAreaResolveLoopNoBreak(
                 IF take = rows[k].shortage_qty
                 THEN DeleteShortage(tbl, rows[k].shortageid)
                 ELSE UpdateShortagePartial(tbl, rows[k].shortageid, take, user, ts),
                 rows, k + 1, remaining - take, user, ts)

\* SellingAreaHandler.resolve_shortages: for r in rows.itertuples()
RECURSIVE SellingAreaResolveLoop(_, _, _, _, _, _)
SellingAreaResolveLoop(tbl, rows, k, remaining, user, ts) ==
    IF k > Len(rows) \/ remaining = 0
    THEN [shelf_shortage |-> tbl, remaining |-> remaining]
    ELSE LET take == Take(remaining, rows[k].shortage_qty)
         IN  SellingAreaResolveLoop(
                 IF take = rows[k].shortage_qty
                 THEN DeleteShortage(tbl, rows[k].shortageid)
                 ELSE UpdateShortagePartial(tbl, rows[k].shortageid, take, user, ts),
                 rows, k + 1, remaining - take, user, ts)

\* ShelfHandler.resolve_shortages: for r in rows.itertuples()
RECURSIVE ShelfResolveLoop(_, _, _, _, _, _)
ShelfResolveLoop(tbl, rows, k, remaining, user, ts) ==
    IF k > Len(rows) \/ remaining = 0
    THEN [shelf_shortage |-> tbl, remaining |-> remaining]
    ELSE LET take == Take(remaining, rows[k].shortage_qty)
         IN  ShelfResolveLoop(
                 UpdateShortage(tbl, rows[k].shortageid, take, user, ts),
                 rows, k + 1, remaining - take, user, ts)

\* the outcomes of SellingAreaHandler.resolve_shortages on ledger tbl
SellingAreaResolve(tbl, itemid, qty_need, user, ts) ==
    {[rows |-> rows,
      out |-> SellingAreaResolveLoop(tbl, rows, 1, qty_need, user, ts)] :
        rows \in FetchOpenShortages(tbl, itemid)}

\* the outcomes of ShelfHandler.resolve_shortages on ledger tbl
ShelfResolve(tbl, itemid, qty_need, user, ts) ==
    {[rows |-> rows,
      out |-> LET o == ShelfResolveLoop(tbl, rows, 1, qty_need, user, ts)
              IN  [o EXCEPT !.shelf_shortage = DeleteZeroShortages(@)]] :
        rows \in FetchOpenShortages(tbl, itemid)}

ResolveCall(handler, itemid, qty_need, user, o) ==
    [op |-> "resolve_shortages", handler |-> handler, itemid |-> itemid,
     qty_need |-> qty_need, user |-> user, rows |-> o.rows,
     pre |-> shelf_shortage, ret |-> o.out.remaining, ts |-> now]

\* SellingAreaHandler.resolve_shortages(itemid=, qty_need=, user=)
SellingAreaHandler_resolve_shortages(itemid, qty_need, user) ==
    /\ pc = "idle"
    /\ \E o \in SellingAreaResolve(shelf_shortage, itemid, qty_need, user, now) :
          /\ shelf_shortage' = o.out.shelf_shortage
          /\ call' = ResolveCall("SellingAreaHandler", itemid, qty_need, user, o)
    /\ now' = now + 1
    /\ UNCHANGED <<sales, salesitems, shelf, inventory, purchase, seq, tx, pc>>

\* ShelfHandler.resolve_shortages(itemid=, qty_need=, user=)
ShelfHandler_resolve_shortages(itemid, qty_need, user) ==
    /\ pc = "idle"
    /\ \E o \in ShelfResolve(shelf_shortage, itemid, qty_need, user, now) :
          /\ shelf_shortage' = o.out.shelf_shortage
          /\ call' = ResolveCall("ShelfHandler", itemid, qty_need, user, o)
    /\ now' = now + 1
    /\ UNCHANGED <<sales, salesitems, shelf, inventory, purchase, seq, tx, pc>>

(***************************************************************************)
(* SpecLedger: both resolvers on ledgers of tickets the sale engine logged. *)
(***************************************************************************)
MaxTickets == 2
MaxResolves == 2

\* tickets of one transaction share logged_at
LoggedTimes == {1, 2}

TicketKinds ==
    {[itemid |-> 1, shortage_qty |-> q, logged_at |-> t] :
        q \in 1..MaxReqQty, t \in LoggedTimes}
    \cup {[itemid |-> 2, shortage_qty |-> 1, logged_at |-> 1]}

LedgerOf(tk) ==
    {[shortageid |-> n, saleid |-> n, itemid |-> tk[n].itemid,
      shortage_qty |-> tk[n].shortage_qty,
      resolved_qty |-> NULLINT, resolved |-> FALSE,
      resolved_by |-> NULL, resolved_at |-> NULLINT,
      logged_at |-> tk[n].logged_at] : n \in 1..Len(tk)}

InitialLedgers ==
    {LedgerOf(tk) : tk \in UNION {[1..n -> TicketKinds] : n \in 0..MaxTickets}}

\* the largest need a refill asks for: max(target - current, threshold - current)
\* with current = 0
NeedCap(i) ==
    Max(Coalesce(item[i].shelfaverage, item[i].shelfthreshold),
        item[i].shelfthreshold)

FirstResolveTime == 1 + Cardinality(LoggedTimes)

InitLedger ==
    /\ sales = {}
    /\ salesitems = {}
    /\ shelf_shortage \in InitialLedgers
    /\ shelf = {}
    /\ inventory = {}
    /\ purchase = NoPurchases
    /\ seq = [Seq0 EXCEPT !.shelf_shortage = Cardinality(shelf_shortage), !.shelf = 0]
    /\ now = FirstResolveTime
    /\ tx = NoTx
    /\ pc = "idle"
    /\ call = [op |-> "none"]

NextLedger ==
    \/ \E i \in Items : \E n \in 0..NeedCap(i) :
          /\ now < FirstResolveTime + MaxResolves
          /\ SellingAreaHandler_resolve_shortages(i, n, "AUTO-UNIFIED")
    \/ \E i \in Items : \E n \in 0..NeedCap(i) :
          /\ now < FirstResolveTime + MaxResolves
          /\ ShelfHandler_resolve_shortages(i, n, "AUTOSIM")

SpecLedger == InitLedger /\ [][NextLedger]_vars

(***************************************************************************)
(* Warehouse replenishment: InventoryHandler (stock_levels, supplier_for,  *)
(* restock_items_bulk, _restock_supplier) driven by inventory_cycle of     *)
(* src/pages/POS.py.  A replenishment works on w, its view of              *)
(*   w.inventory, w.purchase, w.seq                                        *)
(***************************************************************************)
DEFAULT_THRESHOLD == 50
DEFAULT_AVERAGE == 100
GENERIC_SUPPLIER_ID == 510
FIX_EXPIRY == 20270721
FIX_WH_LOC == "A2"

\* table itemsupplier: item 2 has a supplier of its own, item 1 has none
itemsupplier == [i \in Items |-> IF i = 2 THEN 7 ELSE NULLINT]

\* the elements of a set of integers in ascending order
RECURSIVE Ascending(_)
Ascending(S) ==
    IF S = {} THEN <<>>
    ELSE LET m == CHOOSE x \in S : \A y \in S : x <= y
         IN  <<m>> \o Ascending(S \ {m})

MaxOf(S) == IF S = {} THEN 0 ELSE CHOOSE m \in S : \A x \in S : x <= m

\* InventoryHandler.stock_levels() when table item holds cat: one row per
\* item, totalqty the sum over all its inventory rows (0 when it has none)
StockLevelsOf(cat, inv) ==
    [i \in Items |->
        [itemid       |-> i,
         threshold    |-> Coalesce(cat[i].threshold, DEFAULT_THRESHOLD),
         average      |-> Coalesce(cat[i].averagerequired, DEFAULT_AVERAGE),
         sellingprice |-> Coalesce(cat[i].sellingprice, 0),
         totalqty     |-> SumQty({r \in inv : r.itemid = i})]]

\* InventoryHandler.stock_levels() on the catalogue item
stock_levels(inv) == StockLevelsOf(item, inv)

\* InventoryHandler.supplier_for(itemid)
supplier_for(itemid) ==
    IF itemsupplier[itemid] = NULLINT THEN GENERIC_SUPPLIER_ID
    ELSE itemsupplier[itemid]

\* _sync_sequence for the four sequences: setval(seq, COALESCE(MAX(pk),0), true)
SyncSequences(w) ==
    [w EXCEPT
        !.seq.purchaseorders = MaxOf({r.poid : r \in w.purchase.purchaseorders}),
        !.seq.purchaseorderitems =
            MaxOf({r.poitemid : r \in w.purchase.purchaseorderitems}),
        !.seq.poitemcost = MaxOf({r.costid : r \in w.purchase.poitemcost}),
        !.seq.inventory = MaxOf({r.batchid : r \in w.inventory})]

\* cpu = round(float(r.sellingprice) * 0.75, 2) if r.sellingprice else 0.0
CostPerUnit(sellingprice) ==
    IF sellingprice = 0 THEN 0 ELSE Round2(sellingprice * 75, 100)

\* steps 1 to 3 of _restock_supplier: one purchase order for the rows of
\* items_df (itemid, need, sellingprice), its lines and cost rows, one
\* inventory row per item, every key drawn from its sequence
InsertSupplierRows(w, sup_id, items_df) ==
    LET poid  == w.seq.purchaseorders + 1
        items == [n \in 1..Len(items_df) |->
                    [itemid |-> items_df[n].itemid, need |-> items_df[n].need,
                     cpu |-> CostPerUnit(items_df[n].sellingprice)]]
    IN  [inventory |->
            w.inventory \cup
            {[batchid |-> w.seq.inventory + n, itemid |-> items[n].itemid,
              quantity |-> items[n].need, expirationdate |-> FIX_EXPIRY,
              storagelocation |-> FIX_WH_LOC, cost_per_unit |-> items[n].cpu,
              poid |-> poid, costid |-> w.seq.poitemcost + n] :
                n \in 1..Len(items)},
         purchase |->
            [purchaseorders |->
                w.purchase.purchaseorders \cup
                {[poid |-> poid, supplierid |-> sup_id, status |-> "Completed",
                  totalcost |-> 0]},
             purchaseorderitems |->
                w.purchase.purchaseorderitems \cup
                {[poitemid |-> w.seq.purchaseorderitems + n, poid |-> poid,
                  itemid |-> items[n].itemid, orderedquantity |-> items[n].need,
                  receivedquantity |-> items[n].need,
                  estimatedprice |-> items[n].cpu] : n \in 1..Len(items)},
             poitemcost |->
                w.purchase.poitemcost \cup
                {[costid |-> w.seq.poitemcost + n, poid |-> poid,
                  itemid |-> items[n].itemid, cost_per_unit |-> items[n].cpu,
                  quantity |-> items[n].need, note |-> "Auto Refill"] :
                    n \in 1..Len(items)}],
         seq |->
            [w.seq EXCEPT !.purchaseorders = poid,
                          !.purchaseorderitems = @ + Len(items),
                          !.poitemcost = @ + Len(items),
                          !.inventory = @ + Len(items)]]

\* InventoryHandler._restock_supplier with no other writer at work: the first
\* attempt syncs the sequences, inserts and commits
_restock_supplier(w0, sup_id, items_df) ==
    InsertSupplierRows(SyncSequences(w0), sup_id, items_df)

\* for sup_id, grp in df_need.groupby("supplier"): one transaction each, in
\* ascending supplier order
RECURSIVE RestockGroups(_, _, _)
RestockGroups(w, df_need, suppliers) ==
    IF suppliers = <<>> THEN w
    ELSE RestockGroups(
             _restock_supplier(w, Head(suppliers),
                 SelectSeq(df_need, LAMBDA r : supplier_for(r.itemid) = Head(suppliers))),
             df_need, Tail(suppliers))

\* InventoryHandler.restock_items_bulk(df_need)
restock_items_bulk(w, df_need) ==
    RestockGroups(w, df_need,
        Ascending({supplier_for(df_need[n].itemid) : n \in 1..Len(df_need)}))

\* below = snap[snap.totalqty < snap.threshold]; need = average - totalqty
BelowOf(snap) ==
    LET ids  == Ascending({i \in Items : snap[i].totalqty < snap[i].threshold})
    IN  [n \in 1..Len(ids) |->
            [itemid |-> ids[n],
             need |-> snap[ids[n]].average - snap[ids[n]].totalqty,
             sellingprice |-> snap[ids[n]].sellingprice]]

BelowThreshold(inv) == BelowOf(stock_levels(inv))

Warehouse == [inventory |-> inventory, purchase |-> purchase, seq |-> seq]

\* inventory_cycle() of src/pages/POS.py when table item holds cat
inventory_cycle_on(cat) ==
    /\ pc = "idle"
    /\ LET below == BelowOf(StockLevelsOf(cat, inventory))
       IN  IF below = <<>>
           THEN /\ UNCHANGED <<inventory, purchase, seq>>
                /\ call' = [op |-> "inventory_cycle", below |-> below, ret |-> 0,
                            pre |-> shelf_shortage, item |-> cat]
           ELSE LET w == restock_items_bulk(Warehouse, below)
                IN  /\ inventory' = w.inventory
                    /\ purchase' = w.purchase
                    /\ seq' = w.seq
                    /\ call' = [op |-> "inventory_cycle", below |-> below,
                                ret |-> Len(below), pre |-> shelf_shortage,
                                item |-> cat]
    /\ UNCHANGED <<sales, salesitems, shelf_shortage, shelf, now, tx, pc>>

\* inventory_cycle() on the catalogue item
inventory_cycle == inventory_cycle_on(item)

(***************************************************************************)
(* Shelf refill: SellingAreaHandler (items_needing_refill,                  *)
(* layers_for_items, _plan_picks, bulk_refill, transfer_from_inventory).    *)
(* The audit rows written to shelfentries are not part of the state.       *)
(***************************************************************************)
DEFAULT_LOCID == "UNASSIGNED"

\* table item_slot: item 1 has a shelf slot, item 2 has none
item_slot == [i \in Items |-> IF i = 1 THEN "A1" ELSE NULL]

\* SellingAreaHandler._lookup_locid(itemid)
_lookup_locid(itemid) == item_slot[itemid]

\* the kpi CTE: on_shelf, shelfthreshold, shelfaverage per item
Kpi(tbl, i) ==
    [on_shelf       |-> SumQty({r \in tbl : r.itemid = i}),
     shelfthreshold |-> Coalesce(item[i].shelfthreshold, 0),
     shelfaverage   |-> Coalesce(item[i].shelfaverage,
                                 Coalesce(item[i].shelfthreshold, 0))]

\* GREATEST(k.shelfaverage - k.on_shelf, k.shelfthreshold - k.on_shelf)
RefillNeed(k) == Max(k.shelfaverage - k.on_shelf, k.shelfthreshold - k.on_shelf)

\* SellingAreaHandler.items_needing_refill(): itemid, need, locid of every item
\* with need > 0
items_needing_refill(tbl) ==
    LET ids == Ascending({i \in Items : RefillNeed(Kpi(tbl, i)) > 0})
    IN  [n \in 1..Len(ids) |->
            [itemid |-> ids[n], need |-> RefillNeed(Kpi(tbl, ids[n])),
             locid |-> IF item_slot[ids[n]] = NULL THEN DEFAULT_LOCID
                       ELSE item_slot[ids[n]]]]

\* r sorts before u under ORDER BY itemid, expirationdate, cost_per_unit
FifoBefore(r, u) ==
    \/ r.itemid < u.itemid
    \/ r.itemid = u.itemid /\ r.expirationdate < u.expirationdate
    \/ /\ r.itemid = u.itemid
       /\ r.expirationdate = u.expirationdate
       /\ r.cost_per_unit < u.cost_per_unit

\* SellingAreaHandler.layers_for_items(item_ids): every listing the store may
\* return for WHERE itemid = ANY(%s) AND quantity > 0 ORDER BY itemid,
\* expirationdate, cost_per_unit
layers_for_items(inv, item_ids) ==
    {s \in Perms({r \in inv : r.itemid \in item_ids /\ r.quantity > 0}) :
        \A i, j \in 1..Len(s) : i < j => ~FifoBefore(s[j], s[i])}

\* first pass of _plan_picks: raw, one tuple per layer still needed
RECURSIVE PlanRaw(_, _, _, _)
PlanRaw(need_left, loc_by_item, layers, k) ==
    IF k > Len(layers) THEN <<>>
    ELSE LET lyr    == layers[k]
             needed == need_left[lyr.itemid]
         IN  IF needed <= 0
             THEN PlanRaw(need_left, loc_by_item, layers, k + 1)
             ELSE LET take == Min(needed, lyr.quantity)
                  IN  <<[itemid |-> lyr.itemid, exp |-> lyr.expirationdate,
                         cpu |-> lyr.cost_per_unit, take_qty |-> take,
                         locid |-> loc_by_item[lyr.itemid]]>>
                      \o PlanRaw([need_left EXCEPT ![lyr.itemid] = @ - take],
                                 loc_by_item, layers, k + 1)

PickKey(p) == <<p.itemid, p.exp, p.cpu, p.locid>>

\* second pass of _plan_picks: agg[(itemid, exp, cpu, loc)] += qty, the keys
\* in the order they were first seen
RECURSIVE Aggregate(_, _)
Aggregate(raw, picks) ==
    IF raw = <<>> THEN picks
    ELSE LET p == Head(raw)
         IN  IF \E n \in 1..Len(picks) : PickKey(picks[n]) = PickKey(p)
             THEN Aggregate(Tail(raw),
                      [n \in 1..Len(picks) |->
                          IF PickKey(picks[n]) = PickKey(p)
                          THEN [picks[n] EXCEPT !.take_qty = @ + p.take_qty]
                          ELSE picks[n]])
             ELSE Aggregate(Tail(raw), Append(picks, p))

\* SellingAreaHandler._plan_picks(need_df, layers_df)
_plan_picks(need_df, layers_df) ==
    LET ids         == {need_df[n].itemid : n \in 1..Len(need_df)}
        row(i)      == need_df[CHOOSE n \in 1..Len(need_df) : need_df[n].itemid = i]
        need_left   == [i \in Items |-> IF i \in ids THEN row(i).need ELSE 0]
        loc_by_item == [i \in Items |-> IF i \in ids THEN row(i).locid ELSE NULL]
    IN  Aggregate(PlanRaw(need_left, loc_by_item, layers_df, 1), <<>>)

\* step 1 of bulk_refill: UPDATE inventory AS inv SET quantity = inv.quantity -
\* v.take_qty FROM (VALUES %s) v WHERE inv.itemid = v.itemid AND
\* inv.expirationdate = v.exp AND inv.cost_per_unit = v.cpu
DecrementInventory(inv, picks) ==
    {IF \E n \in 1..Len(picks) :
            /\ r.itemid = picks[n].itemid
            /\ r.expirationdate = picks[n].exp
            /\ r.cost_per_unit = picks[n].cpu
     THEN LET n == CHOOSE m \in 1..Len(picks) :
                      /\ r.itemid = picks[m].itemid
                      /\ r.expirationdate = picks[m].exp
                      /\ r.cost_per_unit = picks[m].cpu
          IN  [r EXCEPT !.quantity = @ - picks[n].take_qty]
     ELSE r : r \in inv}

UpsertShelfLayerInsertOnly(v, p) ==
    <<v[1] \cup {[shelfid |-> v[2] + 1, itemid |-> p.itemid,
                   expirationdate |-> p.exp, cost_per_unit |-> p.cpu,
                   locid |-> p.locid, quantity |-> p.take_qty]},
      v[2] + 1>>

\* INSERT INTO shelf (itemid, expirationdate, cost_per_unit, quantity, locid)
\* ... ON CONFLICT (itemid, expirationdate, cost_per_unit, locid) DO UPDATE SET
\* quantity = shelf.quantity + EXCLUDED.quantity, for one row; v is <<shelf
\* table, shelf sequence>>.  The insert draws its shelfid before the conflict
\* is seen.
UpsertShelfLayer(v, p) ==
    IF \E r \in v[1] : /\ r.itemid = p.itemid
                       /\ r.expirationdate = p.exp
                       /\ r.cost_per_unit = p.cpu
                       /\ r.locid = p.locid
    THEN <<{IF /\ r.itemid = p.itemid
               /\ r.expirationdate = p.exp
               /\ r.cost_per_unit = p.cpu
               /\ r.locid = p.locid
            THEN [r EXCEPT !.quantity = @ + p.take_qty]
            ELSE r : r \in v[1]},
           v[2] + 1>>
    ELSE <<v[1] \cup {[shelfid |-> v[2] + 1, itemid |-> p.itemid,
                       expirationdate |-> p.exp, cost_per_unit |-> p.cpu,
                       locid |-> p.locid, quantity |-> p.take_qty]},
           v[2] + 1>>

\* step 2 of bulk_refill: the upsert of every pick
RECURSIVE UpsertShelf(_, _)
UpsertShelf(v, picks) ==
    IF picks = <<>> THEN v
    ELSE UpsertShelf(UpsertShelfLayer(v, Head(picks)), Tail(picks))

\* SellingAreaHandler.bulk_refill(user=)
bulk_refill ==
    /\ pc = "idle"
    /\ LET need_df == items_needing_refill(shelf)
       IN  IF need_df = <<>>
           THEN /\ UNCHANGED <<inventory, shelf, seq>>
                /\ call' = [op |-> "bulk_refill", need_df |-> need_df,
                            picks |-> <<>>, ret |-> 0]
           ELSE \E layers_df \in layers_for_items(inventory,
                                    {need_df[n].itemid : n \in 1..Len(need_df)}) :
                   LET picks == _plan_picks(need_df, layers_df)
                       v     == UpsertShelf(<<shelf, seq.shelf>>, picks)
                   IN  /\ inventory' = DecrementInventory(inventory, picks)
                       /\ shelf' = v[1]
                       /\ seq' = [seq EXCEPT !.shelf = v[2]]
                       /\ call' = [op |-> "bulk_refill", need_df |-> need_df,
                                   picks |-> picks, ret |-> Len(picks)]
    /\ UNCHANGED <<sales, salesitems, shelf_shortage, purchase, now, tx, pc>>

\* SellingAreaHandler.transfer_from_inventory(itemid=, expirationdate=,
\* quantity=, cost_per_unit=, created_by=, locid=None): raises when the item
\* has no slot or no row of the layer holds the quantity
transfer_from_inventory(itemid, expirationdate, quantity, cost_per_unit) ==
    /\ pc = "idle"
    /\ LET locid == _lookup_locid(itemid)
           hit   == {r \in inventory : /\ r.itemid = itemid
                                       /\ r.expirationdate = expirationdate
                                       /\ r.cost_per_unit = cost_per_unit
                                       /\ r.quantity >= quantity}
           p     == [itemid |-> itemid, exp |-> expirationdate,
                     cpu |-> cost_per_unit, take_qty |-> quantity, locid |-> locid]
           args  == [itemid |-> itemid, expirationdate |-> expirationdate,
                     quantity |-> quantity, cost_per_unit |-> cost_per_unit]
       IN  IF locid = NULL \/ hit = {}
           THEN /\ UNCHANGED <<inventory, shelf, seq>>
                /\ call' = [op |-> "transfer_from_inventory",
                            handler |-> "SellingAreaHandler", args |-> args,
                            failed |-> TRUE]
           ELSE LET v == UpsertShelfLayer(<<shelf, seq.shelf>>, p)
                IN  /\ inventory' =
                          {IF r \in hit THEN [r EXCEPT !.quantity = @ - quantity]
                           ELSE r : r \in inventory}
                    /\ shelf' = v[1]
                    /\ seq' = [seq EXCEPT !.shelf = v[2]]
                    /\ call' = [op |-> "transfer_from_inventory",
                                handler |-> "SellingAreaHandler", args |-> args,
                                failed |-> FALSE]
    /\ UNCHANGED <<sales, salesitems, shelf_shortage, purchase, now, tx, pc>>

(***************************************************************************)
(* Spec: the store with sales, shelf refills and warehouse replenishments  *)
(* in any order, starting from a warehouse that holds its first purchase   *)
(* orders and an empty shelf.                                              *)
(***************************************************************************)
MaxPurchaseOrders == 3

\* the warehouse after the first replenishment of every item
FirstStock ==
    restock_items_bulk(
        [inventory |-> {}, purchase |-> NoPurchases, seq |-> [Seq0 EXCEPT !.shelf = 0]],
        BelowThreshold({}))

Init ==
    /\ sales = {}
    /\ salesitems = {}
    /\ shelf_shortage = {}
    /\ shelf = {}
    /\ inventory = FirstStock.inventory
    /\ purchase = FirstStock.purchase
    /\ seq = FirstStock.seq
    /\ now = 1
    /\ tx = NoTx
    /\ pc = "idle"
    /\ call = [op |-> "none"]

Next ==
    \/ \E n \in {x \in BatchSizes \ {0} : x <= SalesLeft} :
           \E carts \in DueCarts(n, LinesLeft) :
               process_sales_batch(pending_sales(carts))
    \/ /\ Cardinality(purchase.purchaseorders) < MaxPurchaseOrders
       /\ inventory_cycle
    \/ bulk_refill
    \/ \E r \in inventory : \E q \in 1..MaxReqQty :
           transfer_from_inventory(r.itemid, r.expirationdate, q, r.cost_per_unit)

Spec == Init /\ [][Next]_vars

(***************************************************************************)
(* Per-item shelf refill: ShelfHandler.restock_item and refill_item /        *)
(* run_cycle of src/pages/selling_area.py.  A refill works on v, its view   *)
(* of  v.inventory, v.shelf, v.shelf_shortage, v.seq ; every statement of   *)
(* either commits on its own.                                               *)
(***************************************************************************)
Store == [inventory |-> inventory, shelf |-> shelf,
          shelf_shortage |-> shelf_shortage, seq |-> seq]

\* SELECT expirationdate, quantity, cost_per_unit FROM inventory WHERE
\* itemid = %s AND quantity > 0 ORDER BY expirationdate, cost_per_unit
InventoryLayers(inv, itemid) == layers_for_items(inv, {itemid})

\* the rows of the layer whatever they hold
LayerRowsHitAnyQuantity(inv, itemid, exp, cpu, quantity) ==
    {r \in inv : /\ r.itemid = itemid
                 /\ r.expirationdate = exp
                 /\ r.cost_per_unit = cpu}

\* UPDATE inventory SET quantity = quantity - %s WHERE itemid = %s AND
\* expirationdate = %s AND cost_per_unit = %s AND quantity >= %s: the rows hit
LayerRowsHit(inv, itemid, exp, cpu, quantity) ==
    {r \in inv : /\ r.itemid = itemid
                 /\ r.expirationdate = exp
                 /\ r.cost_per_unit = cpu
                 /\ r.quantity >= quantity}

DecrementLayerRestamped(inv, hit, quantity) ==
    {IF r \in hit THEN [r EXCEPT !.quantity = @ - quantity, !.expirationdate = @ + 1]
     ELSE r : r \in inv}

DecrementLayer(inv, hit, quantity) ==
    {IF r \in hit THEN [r EXCEPT !.quantity = @ - quantity] ELSE r : r \in inv}

\* ShelfHandler.add_to_shelf: INSERT INTO shelf (itemid, expirationdate,
\* quantity, cost_per_unit) ... ON CONFLICT (itemid, expirationdate,
\* cost_per_unit) DO UPDATE SET quantity = shelf.quantity + EXCLUDED.quantity;
\* the outcomes on <<shelf table, shelf sequence>>
add_to_shelf(v, itemid, exp, quantity, cpu) ==
    LET same == {r \in v[1] : /\ r.itemid = itemid
                              /\ r.expirationdate = exp
                              /\ r.cost_per_unit = cpu}
    IN  IF same = {}
        THEN {<<v[1] \cup {[shelfid |-> v[2] + 1, itemid |-> itemid,
                            expirationdate |-> exp, cost_per_unit |-> cpu,
                            locid |-> NULL, quantity |-> quantity]},
                v[2] + 1>>}
        ELSE {<<(v[1] \ {r}) \cup {[r EXCEPT !.quantity = @ + quantity]},
                v[2] + 1>> : r \in same}

\* ShelfHandler.transfer_from_inventory(itemid, expirationdate, quantity,
\* cost_per_unit, created_by) on store v: the outcomes, failed when no row of
\* the layer holds the quantity (ValueError, the block rolled back)
ShelfTransfer(v, itemid, exp, quantity, cpu) ==
    LET hit == LayerRowsHit(v.inventory, itemid, exp, cpu, quantity)
    IN  IF hit = {}
        THEN {[v |-> v, failed |-> TRUE]}
        ELSE {[v |-> [v EXCEPT !.inventory = DecrementLayer(@, hit, quantity),
                               !.shelf = u[1], !.seq.shelf = u[2]],
               failed |-> FALSE] :
                u \in add_to_shelf(<<v.shelf, v.seq.shelf>>, itemid, exp, quantity, cpu)}

\* SellingAreaHandler.transfer_from_inventory on store v: failed when the item
\* has no slot or no row of the layer holds the quantity
SellingAreaTransfer(v, itemid, exp, quantity, cpu) ==
    LET locid == _lookup_locid(itemid)
        hit   == LayerRowsHit(v.inventory, itemid, exp, cpu, quantity)
        u     == UpsertShelfLayer(<<v.shelf, v.seq.shelf>>,
                     [itemid |-> itemid, exp |-> exp, cpu |-> cpu,
                      take_qty |-> quantity, locid |-> locid])
    IN  IF locid = NULL \/ hit = {}
        THEN [v |-> v, failed |-> TRUE]
        ELSE [v |-> [v EXCEPT !.inventory = DecrementLayer(@, hit, quantity),
                              !.shelf = u[1], !.seq.shelf = u[2]],
              failed |-> FALSE]

\* INSERT INTO shelf_shortage (itemid, shortage_qty, logged_at) VALUES (%s, %s,
\* CURRENT_TIMESTAMP), saleid as given (NULL when the statement names none)
LogShortage(v, saleid, itemid, need, ts) ==
    [v EXCEPT
        !.shelf_shortage = @ \cup
            {[shortageid |-> v.seq.shelf_shortage + 1, saleid |-> saleid,
              itemid |-> itemid, shortage_qty |-> need,
              resolved_qty |-> NULLINT, resolved |-> FALSE,
              resolved_by |-> NULL, resolved_at |-> NULLINT, logged_at |-> ts]},
        !.seq.shelf_shortage = @ + 1]

\* ShelfHandler.restock_item, step 2: for lyr in layers.itertuples(); the
\* outcomes [v, need, failed, moved]
RECURSIVE ShelfRestockLoop(_, _, _, _, _)
ShelfRestockLoop(v, layers, k, need, moved) ==
    IF k > Len(layers)
    THEN {[v |-> v, need |-> need, failed |-> FALSE, moved |-> moved]}
    ELSE LET lyr  == layers[k]
             take == Min(need, lyr.quantity)
         IN  UNION {IF t.failed
                    THEN {[v |-> t.v, need |-> need, failed |-> TRUE, moved |-> moved]}
                    ELSE IF need - take <= 0
                         THEN {[v |-> t.v, need |-> need - take, failed |-> FALSE,
                                moved |-> moved + take]}
                         ELSE ShelfRestockLoop(t.v, layers, k + 1, need - take,
                                               moved + take) :
                       t \in ShelfTransfer(v, lyr.itemid, lyr.expirationdate, take,
                                           lyr.cost_per_unit)}

\* int(x or 0) on a nullable Int64 value raises for NA (its truth value is
\* ambiguous)
RaisesOnNA(x) == x = NULLINT

\* the result of a refill of one item: the store it leaves, whether it raised,
\* the units moved to the shelf, the need it computed and what shortage
\* resolution left of it
RefillResult(v, failed, moved, need, left) ==
    [v |-> v, failed |-> failed, moved |-> moved, need |-> need, left |-> left]

\* ShelfHandler.restock_item(itemid, user=) on store v: its outcomes
ShelfRestockItem(v, itemid, user, ts) ==
    LET current   == SumQty({r \in v.shelf : r.itemid = itemid})
        threshold == item[itemid].shelfthreshold
        target    == IF item[itemid].shelfaverage # 0 THEN item[itemid].shelfaverage
                     ELSE threshold
        need      == Max(target - current, threshold - current)
    IN  IF RaisesOnNA(item[itemid].shelfthreshold) \/ RaisesOnNA(item[itemid].shelfaverage)
        THEN {RefillResult(v, TRUE, 0, 0, 0)}
        ELSE IF current >= threshold
        THEN {RefillResult(v, FALSE, 0, 0, 0)}
        ELSE UNION {
            LET v1 == [v EXCEPT !.shelf_shortage = o.out.shelf_shortage]
            IN  IF o.out.remaining <= 0
                THEN {RefillResult(v1, FALSE, 0, need, o.out.remaining)}
                ELSE UNION {
                    {IF x.failed
                     THEN RefillResult(x.v, TRUE, x.moved, need, o.out.remaining)
                     ELSE IF x.need > 0
                          THEN RefillResult(LogShortage(x.v, NULLINT, itemid, x.need, ts),
                                            FALSE, x.moved, need, o.out.remaining)
                          ELSE RefillResult(x.v, FALSE, x.moved, need, o.out.remaining) :
                        x \in ShelfRestockLoop(v1, layers, 1, o.out.remaining, 0)} :
                    layers \in InventoryLayers(v1.inventory, itemid)} :
            o \in ShelfResolve(v.shelf_shortage, itemid, need, user, ts)}

RefillCall(op, itemid, o) ==
    [op |-> op, itemid |-> itemid, failed |-> o.failed, moved |-> o.moved,
     need |-> o.need, left |-> o.left,
     pre |-> [shelf_shortage |-> shelf_shortage, inventory |-> inventory,
              shelf |-> shelf]]

\* ShelfHandler.restock_item(itemid, user="AUTOSIM")
restock_item(itemid) ==
    /\ pc = "idle"
    /\ \E o \in ShelfRestockItem(Store, itemid, "AUTOSIM", now) :
          /\ inventory' = o.v.inventory
          /\ shelf' = o.v.shelf
          /\ shelf_shortage' = o.v.shelf_shortage
          /\ seq' = o.v.seq
          /\ call' = RefillCall("restock_item", itemid, o)
    /\ now' = now + 1
    /\ UNCHANGED <<sales, salesitems, purchase, tx, pc>>

\* SellingAreaHandler.get_items_below_shelfthreshold(): the items whose shelf
\* total is below COALESCE(shelfthreshold, 0), ORDER BY itemnameenglish (the
\* names of the item table sort as the ids do)
get_items_below_shelfthreshold(tbl) ==
    LET ids == Ascending({i \in Items :
                   Kpi(tbl, i).on_shelf < Kpi(tbl, i).shelfthreshold})
    IN  [n \in 1..Len(ids) |->
            [itemid |-> ids[n], itemname |-> item[ids[n]].itemnameenglish,
             shelfthreshold |-> Kpi(tbl, ids[n]).shelfthreshold,
             shelfaverage |-> Kpi(tbl, ids[n]).shelfaverage,
             totalquantity |-> Kpi(tbl, ids[n]).on_shelf]]

USER == "AUTO-SHELF"

DUMMY_SALEID == 0

\* refill_item of src/pages/selling_area.py: for lyr in layers.itertuples();
\* the outcome [v, need, failed, moved]
RECURSIVE PageRefillLoop(_, _, _, _, _)
PageRefillLoop(v, layers, k, need, moved) ==
    IF k > Len(layers)
    THEN [v |-> v, need |-> need, failed |-> FALSE, moved |-> moved]
    ELSE LET lyr  == layers[k]
             take == Min(need, lyr.quantity)
             t    == SellingAreaTransfer(v, lyr.itemid, lyr.expirationdate, take,
                                         lyr.cost_per_unit)
         IN  IF t.failed
             THEN [v |-> t.v, need |-> need, failed |-> TRUE, moved |-> moved]
             ELSE IF need - take = 0
                  THEN [v |-> t.v, need |-> 0, failed |-> FALSE, moved |-> moved + take]
                  ELSE PageRefillLoop(t.v, layers, k + 1, need - take, moved + take)

\* one line of the cycle log with what the refill did
PageResult(v, row, action, moved, need, left) ==
    [v |-> v, itemid |-> row.itemid, action |-> action, moved |-> moved,
     need |-> need, left |-> left]

\* refill_item(itemid=, current_qty=, meta=) of src/pages/selling_area.py as
\* run_cycle calls it, an exception caught into the action "Error"
refill_item(v, row, ts) ==
    LET need == Max(row.shelfaverage - row.totalquantity,
                    row.shelfthreshold - row.totalquantity)
    IN  IF row.totalquantity >= row.shelfthreshold
        THEN {PageResult(v, row, "OK", 0, 0, 0)}
        ELSE UNION {
            LET v1 == [v EXCEPT !.shelf_shortage = o.out.shelf_shortage]
            IN  IF o.out.remaining <= 0
                THEN {PageResult(v1, row, "Shortage cleared", 0, need, o.out.remaining)}
                ELSE {LET x == PageRefillLoop(v1, layers, 1, o.out.remaining, 0)
                      IN  IF x.failed
                          THEN PageResult(x.v, row, "Error", x.moved, need, o.out.remaining)
                          ELSE IF x.need = 0
                          THEN PageResult(x.v, row, "Refilled", x.moved, need,
                                          o.out.remaining)
                          ELSE PageResult(LogShortage(x.v, DUMMY_SALEID, row.itemid,
                                                      x.need, ts),
                                          row, "Partial", x.moved, need, o.out.remaining) :
                        layers \in InventoryLayers(v1.inventory, row.itemid)} :
            o \in SellingAreaResolve(v.shelf_shortage, row.itemid, need, USER, ts)}

\* run_cycle of src/pages/selling_area.py: for i, row in enumerate(below...);
\* the outcomes [v, log]
RECURSIVE RunCycleLoop(_, _, _, _, _)
RunCycleLoop(v, below, k, log, ts) ==
    IF k > Len(below) THEN {[v |-> v, log |-> log]}
    ELSE UNION {RunCycleLoop(r.v, below, k + 1,
                             Append(log, [itemid |-> r.itemid, action |-> r.action,
                                          moved |-> r.moved, need |-> r.need,
                                          left |-> r.left]),
                             ts) :
                   r \in refill_item(v, below[k], ts)}

\* run_cycle() of src/pages/selling_area.py
run_cycle ==
    /\ pc = "idle"
    /\ LET below == get_items_below_shelfthreshold(shelf)
       IN  \E o \in RunCycleLoop(Store, below, 1, <<>>, now) :
              /\ inventory' = o.v.inventory
              /\ shelf' = o.v.shelf
              /\ shelf_shortage' = o.v.shelf_shortage
              /\ seq' = o.v.seq
              /\ call' = [op |-> "run_cycle", below |-> below, log |-> o.log,
                          pre |-> [shelf_shortage |-> shelf_shortage,
                                   inventory |-> inventory, shelf |-> shelf]]
    /\ now' = now + 1
    /\ UNCHANGED <<sales, salesitems, purchase, tx, pc>>

(***************************************************************************)
(* SpecRefill: sales on a shelf that the refill paths fill from a          *)
(* warehouse nobody replenishes.  The warehouse starts with the rows two   *)
(* replenishments of item 1 and one of item 2 left (restock_items_bulk     *)
(* gives every row of an item the same expiration date and unit cost),     *)
(* each holding 0..MaxLayerQty units; shelf and ledger start empty.        *)
(***************************************************************************)
StockKeys ==
    <<[itemid |-> 1, cost_per_unit |-> CostPerUnit(item[1].sellingprice), poid |-> 1],
      [itemid |-> 1, cost_per_unit |-> CostPerUnit(item[1].sellingprice), poid |-> 3],
      [itemid |-> 2, cost_per_unit |-> CostPerUnit(item[2].sellingprice), poid |-> 2]>>

StockOf(q) ==
    {[batchid |-> n, itemid |-> StockKeys[n].itemid, quantity |-> q[n],
      expirationdate |-> FIX_EXPIRY, storagelocation |-> FIX_WH_LOC,
      cost_per_unit |-> StockKeys[n].cost_per_unit, poid |-> StockKeys[n].poid,
      costid |-> n] : n \in DOMAIN StockKeys}

InitialStocks == {StockOf(q) : q \in [DOMAIN StockKeys -> 0..MaxLayerQty]}

MaxRefillSteps == 3

InitRefill ==
    /\ sales = {}
    /\ salesitems = {}
    /\ shelf_shortage = {}
    /\ shelf = {}
    /\ inventory \in InitialStocks
    /\ purchase = NoPurchases
    /\ seq = [Seq0 EXCEPT !.shelf = 0, !.inventory = Len(StockKeys)]
    /\ now = 1
    /\ tx = NoTx
    /\ pc = "idle"
    /\ call = [op |-> "none"]

NextRefill ==
    \/ /\ now <= MaxRefillSteps
       /\ SalesLeft > 0
       /\ \E carts \in DueCarts(1, Min(1, LinesLeft)) :
              process_sales_batch(pending_sales(carts))
    \/ /\ now <= MaxRefillSteps
       /\ \E i \in Items : restock_item(i)
    \/ /\ now <= MaxRefillSteps
       /\ run_cycle
    \/ /\ now <= MaxRefillSteps
       /\ bulk_refill

SpecRefill == InitRefill /\ [][NextRefill]_vars

(***************************************************************************)
(* SpecCycle: inventory_cycle alone, on the warehouse its first            *)
(* replenishment left, drawn down to any quantities, with table item       *)
(* holding any of the catalogues below when a cycle reads it: threshold    *)
(* and averagerequired of an item may be unset, and the average may lie    *)
(* below the threshold.                                                    *)
(***************************************************************************)
MaxCycleOrders == 4

Thresholds == {NULLINT, 1, 3}

Averages == {NULLINT, 2, 4}

Catalogues ==
    {[i \in Items |-> [item[i] EXCEPT !.threshold = t[i], !.averagerequired = a[i]]] :
        t \in [Items -> Thresholds], a \in [Items -> Averages]}

CycleStocks ==
    {{[r EXCEPT !.quantity = q[r.itemid]] : r \in FirstStock.inventory} :
        q \in [Items -> 0..MaxLayerQty]}

InitCycle ==
    /\ sales = {}
    /\ salesitems = {}
    /\ shelf_shortage = {}
    /\ shelf = {}
    /\ inventory \in CycleStocks
    /\ purchase = FirstStock.purchase
    /\ seq = FirstStock.seq
    /\ now = 1
    /\ tx = NoTx
    /\ pc = "idle"
    /\ call = [op |-> "none"]

NextCycle ==
    /\ Cardinality(purchase.purchaseorders) < MaxCycleOrders
    /\ \E cat \in Catalogues : inventory_cycle_on(cat)

SpecCycle == InitCycle /\ [][NextCycle]_vars

(***************************************************************************)
(* The sequence guard of _restock_supplier, statement by statement, with   *)
(* other sessions writing to the same tables.  A replenishment in flight   *)
(* keeps its locals in tx: the supplier groups still to do, the attempt of *)
(* the current group, the results of the groups done, and the keys other   *)
(* sessions committed meanwhile.  pc is "sync" before _sync_sequence runs  *)
(* and "insert" before the inserts of the attempt.                         *)
(***************************************************************************)
GuardedSequences == <<"purchaseorders", "purchaseorderitems", "poitemcost", "inventory">>

\* SELECT COALESCE(MAX(pk), 0) reads these keys
KeysOf(w) ==
    [purchaseorders     |-> {r.poid : r \in w.purchase.purchaseorders},
     purchaseorderitems |-> {r.poitemid : r \in w.purchase.purchaseorderitems},
     poitemcost         |-> {r.costid : r \in w.purchase.poitemcost},
     inventory          |-> {r.batchid : r \in w.inventory}]

\* _sync_sequence run for the first k of the four sequences
SyncUpTo(w, k) ==
    [w EXCEPT !.seq =
        [f \in DOMAIN w.seq |->
            IF \E j \in 1..k : GuardedSequences[j] = f
            THEN MaxOf(KeysOf(w)[f]) ELSE w.seq[f]]]

\* the first sequence whose table is empty, 0 when none is: setval(seq, 0,
\* true) is below the minimum of a sequence that starts at 1
FirstEmpty(w) ==
    IF \E j \in 1..Len(GuardedSequences) : KeysOf(w)[GuardedSequences[j]] = {}
    THEN CHOOSE j \in 1..Len(GuardedSequences) :
            /\ KeysOf(w)[GuardedSequences[j]] = {}
            /\ \A m \in 1..(j - 1) : KeysOf(w)[GuardedSequences[m]] # {}
    ELSE 0

\* the least j in 1..n whose key base + j is taken, 0 when none is
FirstCollision(keys, base, n) ==
    IF \E j \in 1..n : base + j \in keys
    THEN CHOOSE j \in 1..n :
            /\ base + j \in keys
            /\ \A m \in 1..(j - 1) : base + m \notin keys
    ELSE 0

\* one attempt of _restock_supplier after the sync: the statement (1 PO header,
\* 2 PO items, 3 cost rows, 4 inventory rows) that raises UniqueViolation, 0
\* when none does, and the transaction's view when it stops
AttemptInsert(w, sup_id, items_df) ==
    LET n    == Len(items_df)
        keys == KeysOf(w)
        c1   == FirstCollision(keys.purchaseorders, w.seq.purchaseorders, 1)
        c2   == FirstCollision(keys.purchaseorderitems, w.seq.purchaseorderitems, n)
        c3   == FirstCollision(keys.poitemcost, w.seq.poitemcost, n)
        c4   == FirstCollision(keys.inventory, w.seq.inventory, n)
        at   == IF c1 > 0 THEN 1 ELSE IF c2 > 0 THEN 2 ELSE IF c3 > 0 THEN 3
                ELSE IF c4 > 0 THEN 4 ELSE 0
        full == InsertSupplierRows(w, sup_id, items_df)
    IN  [at |-> at,
         w  |-> IF at = 0 THEN full
                ELSE [inventory |-> w.inventory,
                      purchase |->
                        [purchaseorders |->
                            IF at > 1 THEN full.purchase.purchaseorders
                            ELSE w.purchase.purchaseorders,
                         purchaseorderitems |->
                            IF at > 2 THEN full.purchase.purchaseorderitems
                            ELSE w.purchase.purchaseorderitems,
                         poitemcost |->
                            IF at > 3 THEN full.purchase.poitemcost
                            ELSE w.purchase.poitemcost],
                      seq |->
                        [w.seq EXCEPT
                            !.purchaseorders = @ + 1,
                            !.purchaseorderitems =
                                @ + (IF at = 1 THEN 0 ELSE IF at = 2 THEN c2 ELSE n),
                            !.poitemcost =
                                @ + (IF at < 3 THEN 0 ELSE IF at = 3 THEN c3 ELSE n),
                            !.inventory = @ + (IF at < 4 THEN 0 ELSE c4)]]]

\* the failed attempt keeps its rows
RollbackAttemptSkipped(w, t) == t

\* "with self.conn" leaving on an exception: the rows of the attempt are gone,
\* the sequence values it drew are not given back
RollbackAttempt(w, t) == [w EXCEPT !.seq = t.seq]

GroupOf(df_need, sup_id) ==
    SelectSeq(df_need, LAMBDA r : supplier_for(r.itemid) = sup_id)

\* restock_items_bulk(df_need) up to the first call of _restock_supplier
restock_begin ==
    /\ pc = "idle"
    /\ BelowThreshold(inventory) # <<>>
    /\ LET df_need == BelowThreshold(inventory)
       IN  tx' = [open |-> TRUE, site |-> "restock", df_need |-> df_need,
                  suppliers |-> Ascending({supplier_for(df_need[n].itemid) :
                                               n \in 1..Len(df_need)}),
                  attempt |-> 1, clean |-> FALSE, done |-> <<>>,
                  others |-> {}, pre |-> Warehouse]
    /\ pc' = "sync"
    /\ UNCHANGED <<sales, salesitems, shelf_shortage, shelf, inventory, purchase,
                   seq, now, call>>

\* what one group of the cycle ended in
GroupResult(raised, error, poid) ==
    [sup_id |-> Head(tx.suppliers), attempts |-> tx.attempt, raised |-> raised,
     error |-> error, clean |-> tx.clean, poid |-> poid]

\* _restock_supplier returns or raises: the loop of restock_items_bulk goes on
\* to the next group, ends, or is left by the exception
EndGroup(res) ==
    LET done == Append(tx.done, res)
    IN  IF res.raised \/ Tail(tx.suppliers) = <<>>
        THEN /\ pc' = "idle"
             /\ tx' = NoTx
             /\ call' = [op |-> "restock_items_bulk", raised |-> res.raised,
                         done |-> done, df_need |-> tx.df_need,
                         left |-> Tail(tx.suppliers), others |-> tx.others,
                         pre |-> tx.pre]
        ELSE /\ pc' = "sync"
             /\ tx' = [tx EXCEPT !.suppliers = Tail(@), !.attempt = 1,
                                 !.clean = FALSE, !.done = done]
             /\ UNCHANGED call

\* "for seq, tbl, pk in (...): self._sync_sequence(cur, seq, tbl, pk)": the
\* store takes every setval, or refuses the one that names 0
guard_sync ==
    /\ pc = "sync"
    /\ tx.site = "restock"
    /\ \/ /\ seq' = SyncSequences(Warehouse).seq
          /\ pc' = "insert"
          /\ tx' = [tx EXCEPT !.clean = TRUE]
          /\ UNCHANGED call
       \/ /\ FirstEmpty(Warehouse) # 0
          /\ seq' = SyncUpTo(Warehouse, FirstEmpty(Warehouse) - 1).seq
          /\ EndGroup([GroupResult(TRUE, "setval", NULLINT) EXCEPT !.clean = TRUE])
    /\ UNCHANGED <<sales, salesitems, shelf_shortage, shelf, inventory, purchase, now>>

\* steps 1 to 4 of the attempt and its commit, or the except branch
guard_insert ==
    /\ pc = "insert"
    /\ tx.site = "restock"
    /\ LET sup_id == Head(tx.suppliers)
           a      == AttemptInsert(Warehouse, sup_id, GroupOf(tx.df_need, sup_id))
           w      == IF a.at = 0 THEN a.w ELSE RollbackAttempt(Warehouse, a.w)
       IN  /\ inventory' = w.inventory
           /\ purchase' = w.purchase
           /\ seq' = w.seq
           /\ IF a.at = 0
              THEN EndGroup(GroupResult(FALSE, "none", Warehouse.seq.purchaseorders + 1))
              ELSE IF tx.attempt = 1
              THEN /\ pc' = "sync"
                   /\ tx' = [tx EXCEPT !.attempt = 2, !.clean = FALSE]
                   /\ UNCHANGED call
              ELSE EndGroup(GroupResult(TRUE, "UniqueViolation", NULLINT))
    /\ UNCHANGED <<sales, salesitems, shelf_shortage, shelf, now>>

MaxForeignWrites == 2

\* another session commits a purchase order (create_manual_po) whose key was
\* drawn before the counter was last set
other_writer_po ==
    /\ tx.open
    /\ tx.site = "restock"
    /\ Cardinality(tx.others) < MaxForeignWrites
    /\ LET key == MaxOf(KeysOf(Warehouse).purchaseorders) + 1
       IN  /\ purchase' = [purchase EXCEPT !.purchaseorders = @ \cup
                              {[poid |-> key, supplierid |-> GENERIC_SUPPLIER_ID,
                                status |-> "Completed", totalcost |-> 0]}]
           /\ tx' = [tx EXCEPT !.clean = FALSE,
                               !.others = @ \cup {<<"purchaseorders", key>>}]
    /\ UNCHANGED <<sales, salesitems, shelf_shortage, shelf, inventory, seq, now,
                   pc, call>>

\* date.today()
today == 20250601

\* another session commits an inventory row (add_items_to_inventory) whose key
\* was drawn before the counter was last set
other_writer_inventory ==
    /\ tx.open
    /\ tx.site = "restock"
    /\ Cardinality(tx.others) < MaxForeignWrites
    /\ LET key == MaxOf(KeysOf(Warehouse).inventory) + 1
       IN  /\ inventory' = inventory \cup
                  {[batchid |-> key, itemid |-> 1, quantity |-> 1,
                    expirationdate |-> today, storagelocation |-> "AUTO",
                    cost_per_unit |-> 0, poid |-> NULLINT, costid |-> NULLINT]}
           /\ tx' = [tx EXCEPT !.clean = FALSE,
                               !.others = @ \cup {<<"inventory", key>>}]
    /\ UNCHANGED <<sales, salesitems, shelf_shortage, shelf, purchase, seq, now,
                   pc, call>>

(***************************************************************************)
(* InventoryRefillHandler.check_and_restock_all: one restock_item per      *)
(* needed item, every statement committed on its own, no sequence guard.   *)
(***************************************************************************)
\* InventoryRefillHandler._stock_levels() and needs = df[df.totalqty <
\* df.inventorythreshold]
RefillNeeds(inv) ==
    LET thr(i) == Coalesce(item[i].inventorythreshold, DEFAULT_THRESHOLD)
        avg(i) == Coalesce(item[i].inventoryaverage, DEFAULT_AVERAGE)
        qty(i) == SumQty({r \in inv : r.itemid = i})
        ids    == Ascending({i \in Items : qty(i) < thr(i)})
    IN  [n \in 1..Len(ids) |->
            [itemid |-> ids[n], current_qty |-> qty(ids[n]),
             need_units |-> avg(ids[n]) - qty(ids[n])]]

\* SUM(quantity * cost_per_unit) over cost records
RECURSIVE SumCost(_)
SumCost(rows) ==
    IF rows = {} THEN 0
    ELSE LET r == CHOOSE x \in rows : TRUE
         IN  r.quantity * r.cost_per_unit + SumCost(rows \ {r})

\* refresh_po_total_cost(poid): UPDATE purchaseorders SET totalcost =
\* COALESCE((SELECT SUM(quantity * cost_per_unit) FROM poitemcost
\* WHERE poid = %s), 0) WHERE poid = %s
refresh_po_total_cost(w, poid) ==
    [w EXCEPT !.purchase.purchaseorders =
        {IF po.poid = poid
         THEN [po EXCEPT !.totalcost =
                  SumCost({c \in w.purchase.poitemcost : c.poid = poid})]
         ELSE po : po \in @}]

\* InventoryRefillHandler.restock_item(itemid, supplier_id, need) on w: the
\* warehouse it leaves, the poid it returns, raised when an insert hit a
\* taken key (what the statements before it committed stays)
InventoryRestockItem(w, itemid, supplier_id, need) ==
    LET keys  == KeysOf(w)
        poid  == w.seq.purchaseorders + 1
        poiid == w.seq.purchaseorderitems + 1
        cid   == w.seq.poitemcost + 1
        bid   == w.seq.inventory + 1
        w1 == [w EXCEPT !.seq.purchaseorders = poid]
        w2 == [w1 EXCEPT
                 !.purchase.purchaseorders = @ \cup
                    {[poid |-> poid, supplierid |-> supplier_id,
                      status |-> "Completed", totalcost |-> 0]},
                 !.seq.purchaseorderitems = poiid]
        w3 == [w2 EXCEPT
                 !.purchase.purchaseorderitems = @ \cup
                    {[poitemid |-> poiid, poid |-> poid, itemid |-> itemid,
                      orderedquantity |-> need, receivedquantity |-> need,
                      estimatedprice |-> 0]},
                 !.seq.poitemcost = cid]
        w4 == [w3 EXCEPT
                 !.purchase.poitemcost = @ \cup
                    {[costid |-> cid, poid |-> poid, itemid |-> itemid,
                      cost_per_unit |-> 0, quantity |-> need,
                      note |-> "Auto-Inventory Refill"]},
                 !.seq.inventory = bid]
        w5 == [w4 EXCEPT
                 !.inventory = @ \cup
                    {[batchid |-> bid, itemid |-> itemid, quantity |-> need,
                      expirationdate |-> today, storagelocation |-> "AUTO",
                      cost_per_unit |-> 0, poid |-> poid, costid |-> cid]}]
        w6 == refresh_po_total_cost(w5, poid)
    IN  IF need <= 0 THEN [w |-> w, raised |-> FALSE, poid |-> 0 - 1]
        ELSE IF poid \in keys.purchaseorders
        THEN [w |-> w1, raised |-> TRUE, poid |-> NULLINT]
        ELSE IF poiid \in keys.purchaseorderitems
        THEN [w |-> w2, raised |-> TRUE, poid |-> NULLINT]
        ELSE IF cid \in keys.poitemcost
        THEN [w |-> w3, raised |-> TRUE, poid |-> NULLINT]
        ELSE IF bid \in keys.inventory
        THEN [w |-> w4, raised |-> TRUE, poid |-> NULLINT]
        ELSE [w |-> w6, raised |-> FALSE, poid |-> poid]

\* "for _, row in needs.iterrows()" of check_and_restock_all
RECURSIVE RestockAllLoop(_, _, _, _, _)
RestockAllLoop(w, needs, k, supplier_id, actions) ==
    IF k > Len(needs) THEN [w |-> w, raised |-> FALSE, actions |-> actions]
    ELSE LET o == InventoryRestockItem(w, needs[k].itemid, supplier_id,
                                       needs[k].need_units)
         IN  IF o.raised THEN [w |-> o.w, raised |-> TRUE, actions |-> actions]
             ELSE RestockAllLoop(o.w, needs, k + 1, supplier_id,
                      Append(actions, [itemid |-> needs[k].itemid,
                                       added |-> needs[k].need_units,
                                       poid |-> o.poid]))

\* InventoryRefillHandler.check_and_restock_all(supplier_id)
check_and_restock_all(supplier_id) ==
    /\ pc = "idle"
    /\ LET needs == RefillNeeds(inventory)
           o     == RestockAllLoop(Warehouse, needs, 1, supplier_id, <<>>)
       IN  /\ inventory' = o.w.inventory
           /\ purchase' = o.w.purchase
           /\ seq' = o.w.seq
           /\ call' = [op |-> "check_and_restock_all", supplier_id |-> supplier_id,
                       needs |-> needs, actions |-> o.actions, raised |-> o.raised,
                       pre |-> Warehouse]
    /\ UNCHANGED <<sales, salesitems, shelf_shortage, shelf, now, tx, pc>>

(***************************************************************************)
(* run_bulk_test of src/pages/auto_POS.py: one simulated sale through      *)
(* CashierHandler.process_sale_with_shortage under the retry loop, with    *)
(* other sessions writing sales.  pc is "pos_try" before a call of         *)
(* process_sale_with_shortage.                                             *)
(***************************************************************************)
\* setval(seq, v, false): the next value drawn is v
SetvalNext(v) == v - 1

\* sync_sequences(): setval(pg_get_serial_sequence(tbl, pk),
\* COALESCE((SELECT MAX(pk) FROM tbl), 0) + 1, false) for the three tables
sync_sequences(t) ==
    [t EXCEPT
        !.seq.sales = SetvalNext(MaxOf({r.saleid : r \in t.sales}) + 1),
        !.seq.salesitems = SetvalNext(MaxOf({r.salesitemid : r \in t.salesitems}) + 1),
        !.seq.shelf_shortage =
            SetvalNext(MaxOf({r.shortageid : r \in t.shelf_shortage}) + 1)]

\* a key the unit of work drew is taken by a row that was there before it
KeyTaken(t, u) ==
    \/ \E r \in t.sales : r.saleid > t.seq.sales /\ r.saleid <= u.seq.sales
    \/ \E r \in t.salesitems :
          r.salesitemid > t.seq.salesitems /\ r.salesitemid <= u.seq.salesitems
    \/ \E r \in t.shelf_shortage :
          r.shortageid > t.seq.shelf_shortage /\ r.shortageid <= u.seq.shelf_shortage

\* CashierHandler.process_sale_with_shortage(cart_items=, discount_rate=0.0,
\* ...): the sale as one unit of work on t; its outcomes, violation when an
\* insert hit a taken key
process_sale_with_shortage(t, cart, ts) ==
    LET batch == <<[cart_items |-> cart, discount_rate |-> 0]>>
    IN  {[violation |-> KeyTaken(t, WriteRows(o[1], o[2], ts)),
          t |-> WriteRows(o[1], o[2], ts)] :
            o \in SalesLoop(InsertHeaders(t, batch),
                            NewLocals(saleids_of(t, batch)), batch)}

\* "if st.button(...)": sync_sequences() once before the loop, then the first
\* sale's cart
run_bulk_begin(cart) ==
    /\ pc = "idle"
    /\ seq' = sync_sequences(Committed).seq
    /\ tx' = [open |-> TRUE, site |-> "auto_POS", cart |-> cart, attempt |-> 0,
              clean |-> TRUE, others |-> {}, pre |-> Committed]
    /\ pc' = "pos_try"
    /\ UNCHANGED <<sales, salesitems, shelf_shortage, shelf, inventory, purchase,
                   now, call>>

BulkResult(sale_id, msg, attempts) ==
    [op |-> "run_bulk_test", sale_id |-> sale_id, msg |-> msg, attempts |-> attempts,
     clean |-> tx.clean, others |-> tx.others, pre |-> tx.pre]

\* one pass of "while attempt < 2": the call and its except branch
pos_try ==
    /\ pc = "pos_try"
    /\ \E a \in process_sale_with_shortage(Committed, tx.cart, now) :
          IF ~a.violation
          THEN /\ Commit(a.t)
               /\ pc' = "idle"
               /\ tx' = NoTx
               /\ call' = BulkResult(Committed.seq.sales + 1, "OK", tx.attempt + 1)
               /\ now' = now + 1
          ELSE /\ seq' = sync_sequences(Committed).seq
               /\ UNCHANGED <<sales, salesitems, shelf_shortage, shelf, now>>
               /\ IF tx.attempt + 1 < 2
                  THEN /\ tx' = [tx EXCEPT !.attempt = @ + 1, !.clean = TRUE]
                       /\ UNCHANGED <<pc, call>>
                  ELSE /\ pc' = "idle"
                       /\ tx' = NoTx
                       /\ call' = BulkResult(NULLINT, "UniqueViolation", tx.attempt + 1)
    /\ UNCHANGED <<inventory, purchase>>

\* another session commits a sale header whose key was drawn before the
\* counter was last set
other_writer_sale ==
    /\ tx.open
    /\ tx.site = "auto_POS"
    /\ Cardinality(tx.others) < MaxForeignWrites
    /\ LET key == MaxOf({r.saleid : r \in sales}) + 1
       IN  /\ sales' = sales \cup
                  {[saleid |-> key, totalamount |-> 0, discountrate |-> 0,
                    totaldiscount |-> 0, finalamount |-> 0]}
           /\ tx' = [tx EXCEPT !.clean = FALSE, !.others = @ \cup {<<"sales", key>>}]
    /\ UNCHANGED <<salesitems, shelf_shortage, shelf, inventory, purchase, seq, now,
                   pc, call>>

(***************************************************************************)
(* SpecGuard: replenishment and simulated sales under the sequence guards. *)
(* The store starts empty, or as the first replenishment left it with      *)
(* every layer either whole or moved out; the counters then are aligned or *)
(* one behind their tables.                                                *)
(***************************************************************************)
\* the warehouse after the first replenishment, the layers of the items in
\* moved emptied
DrainedStock(moved) ==
    [FirstStock EXCEPT
        !.inventory = {IF r.itemid \in moved THEN [r EXCEPT !.quantity = 0] ELSE r :
                          r \in @}]

\* every guarded counter d behind its table's greatest key
Behind(w, d) ==
    [w EXCEPT !.seq =
        [f \in DOMAIN w.seq |->
            IF \E j \in 1..Len(GuardedSequences) : GuardedSequences[j] = f
            THEN Max(0, MaxOf(KeysOf(w)[f]) - d) ELSE w.seq[f]]]

InitialWarehouses ==
    {[inventory |-> {}, purchase |-> NoPurchases, seq |-> [Seq0 EXCEPT !.shelf = 0]]}
    \cup {Behind(DrainedStock(moved), d) : moved \in SUBSET Items, d \in 0..1}

InitGuard ==
    /\ sales = {}
    /\ salesitems = {}
    /\ shelf_shortage = {}
    /\ shelf = {}
    /\ \E w \in InitialWarehouses :
          /\ inventory = w.inventory
          /\ purchase = w.purchase
          /\ seq = w.seq
    /\ now = 1
    /\ tx = NoTx
    /\ pc = "idle"
    /\ call = [op |-> "none"]

\* one behaviour exercises one of the two call sites of the guard
NoSaleYet == sales = {} /\ ~(tx.open /\ tx.site = "auto_POS")

NoRestockYet == call.op \in {"none", "run_bulk_test"} /\ ~(tx.open /\ tx.site = "restock")

NextGuard ==
    \/ /\ Cardinality(purchase.purchaseorders) < MaxPurchaseOrders
       /\ NoSaleYet
       /\ restock_begin
    \/ guard_sync
    \/ guard_insert
    \/ /\ Cardinality(purchase.purchaseorders) <= MaxPurchaseOrders
       /\ other_writer_po
    \/ /\ Cardinality(inventory) <= MaxPurchaseOrders
       /\ other_writer_inventory
    \/ /\ Cardinality(purchase.purchaseorders) < MaxPurchaseOrders
       /\ NoSaleYet
       /\ \E supplier_id \in {supplier_for(i) : i \in Items} :
              check_and_restock_all(supplier_id)
    \/ /\ SalesLeft > 0
       /\ NoRestockYet
       /\ \E cart \in {c \in RandomCarts : Len(c) = 1} : run_bulk_begin(cart)
    \/ pos_try
    \/ /\ Cardinality(sales) <= MaxSales
       /\ other_writer_sale

SpecGuard == InitGuard /\ [][NextGuard]_vars

(***************************************************************************)
(* Concurrent units of work.  Two database sessions each run one unit of   *)
(* work: a process_sales_batch of one sale with one cart line, a           *)
(* bulk_refill, or a ShelfHandler.restock_item.  The store runs them READ  *)
(* COMMITTED (the level psycopg2 connections get unless told otherwise):   *)
(* a SELECT sees what is committed when it runs; a row written by an open  *)
(* transaction is locked until that transaction ends; an UPDATE or DELETE  *)
(* that waited for a lock applies to the row as then committed, and hits   *)
(* no row when the row is gone.  tx.s[p] is session p: its position pc,    *)
(* its Python locals and the row writes of its open transaction;           *)
(* tx.shelf0 is the shelf the sessions started on.                         *)
(***************************************************************************)
Sessions == 1..2

Other(p) == 3 - p

Idle == [pc |-> "idle", kind |-> "none"]

\* the shelf rows session p has written in its open transaction
LockedBy(p) ==
    IF tx.s[p].pc = "deplete"
    THEN {tx.s[p].ops[n].shelfid : n \in 1..Len(tx.s[p].ops)}
    ELSE {}

\* the shelf rows of a layer key that the other session holds locked
KeyLocked(p, itemid, exp, cpu) ==
    \E r \in shelf : /\ r.itemid = itemid
                     /\ r.expirationdate = exp
                     /\ r.cost_per_unit = cpu
                     /\ r.shelfid \in LockedBy(Other(p))

\* process_sales_batch, one sale of one line it: INSERT INTO sales ...
\* RETURNING saleid, then SELECT shelfid, quantity FROM shelf WHERE itemid =
\* %s AND quantity > 0 ORDER BY expirationdate; the saleid is assigned here
\* at commit, when the header row becomes visible
sale_select(p, it) ==
    /\ tx.s[p].pc = "idle"
    /\ \E rows \in FetchShelfFifo(shelf, it.itemid) :
          tx' = [tx EXCEPT !.s[p] =
                    [pc |-> "deplete", kind |-> "sale", it |-> it, rows |-> rows,
                     k |-> 1, remaining |-> it.quantity, ops |-> <<>>,
                     overlap |-> tx.s[Other(p)].pc = "deplete"]]
    /\ UNCHANGED <<sales, salesitems, shelf_shortage, shelf, inventory, purchase,
                   seq, now, pc, call>>

\* one iteration of "for shelfid, qty in cur.fetchall()": the DELETE or the
\* UPDATE of the layer, with the quantity the SELECT returned; it waits while
\* the other session holds the row
sale_write(p) ==
    LET s == tx.s[p]
    IN  /\ s.pc = "deplete"
        /\ s.k <= Len(s.rows)
        /\ s.remaining > 0
        /\ s.rows[s.k].shelfid \notin LockedBy(Other(p))
        /\ LET shelfid == s.rows[s.k].shelfid
               qty     == s.rows[s.k].quantity
           IN  tx' = [tx EXCEPT !.s[p] =
                        IF s.remaining >= qty
                        THEN [s EXCEPT
                                !.ops = Append(@, [shelfid |-> shelfid, delete |-> TRUE,
                                                   n |-> qty]),
                                !.remaining = @ - qty, !.k = @ + 1]
                        ELSE [s EXCEPT
                                !.ops = Append(@, [shelfid |-> shelfid, delete |-> FALSE,
                                                   n |-> s.remaining]),
                                !.remaining = 0, !.k = @ + 1]]
        /\ UNCHANGED <<sales, salesitems, shelf_shortage, shelf, inventory, purchase,
                       seq, now, pc, call>>

\* the row writes of a transaction on the shelf as committed; rows it holds
\* cannot have changed since it wrote them
RECURSIVE ApplyOps(_, _)
ApplyOps(tbl, ops) ==
    IF ops = <<>> THEN tbl
    ELSE ApplyOps(IF Head(ops).delete
                  THEN DeleteShelfRow(tbl, Head(ops).shelfid)
                  ELSE DecrementShelfRow(tbl, Head(ops).shelfid, Head(ops).n),
                  Tail(ops))

\* the rest of process_sales_batch after the depletion of the line: the
\* salesitems row, the shortage row "if remaining > 0", the header totals and
\* self.conn.commit()
sale_commit(p) ==
    LET s     == tx.s[p]
        batch == <<[cart_items |-> <<s.it>>, discount_rate |-> 0]>>
        t0    == InsertHeaders(Committed, batch)
        sid   == saleids_of(Committed, batch)[1]
        req   == s.it.quantity
        price == s.it.sellingprice
        b     == [items_rows |->
                     <<[saleid |-> sid, itemid |-> s.it.itemid,
                        quantity |-> LineQuantity(req, req - s.remaining),
                        unitprice |-> price, totalprice |-> Round2(req * price, 1)]>>,
                  shortage_rows |->
                     IF HasShortage(req, s.remaining)
                     THEN <<[saleid |-> sid, itemid |-> s.it.itemid,
                             shortage_qty |-> s.remaining]>>
                     ELSE <<>>,
                  header_updates |->
                     <<HeaderTotals(LineAmount(req, req - s.remaining, price), 0, sid)>>]
        t1    == WriteRows(t0, b, now)
    IN  /\ s.pc = "deplete"
        /\ s.k > Len(s.rows) \/ s.remaining = 0
        /\ sales' = t1.sales
        /\ salesitems' = t1.salesitems
        /\ shelf_shortage' = t1.shelf_shortage
        /\ seq' = t1.seq
        /\ shelf' = ApplyOps(shelf, s.ops)
        /\ tx' = [tx EXCEPT !.s[p] =
                    [pc |-> "done", kind |-> "sale", it |-> s.it, saleid |-> sid,
                     rows |-> s.rows, ops |-> s.ops, overlap |-> s.overlap,
                     fulfilled |-> req - s.remaining, remaining |-> s.remaining]]
        /\ UNCHANGED <<inventory, purchase, now, pc, call>>

\* what a refill session has written so far: the units the warehouse lost, the
\* units the shelf gained, and whether a decrement exceeded what a row it hit
\* held
NoMove == [loss |-> 0, gain |-> 0, over |-> FALSE]

Moved(w, inv, inv2, shf, shf2, over) ==
    [loss |-> w.loss + SumQty(inv) - SumQty(inv2),
     gain |-> w.gain + SumQty(shf2) - SumQty(shf),
     over |-> w.over \/ over]

\* bulk_refill up to "if not picks: return 0": items_needing_refill(),
\* layers_for_items() and _plan_picks(), each read in its own scope
refill_read(p) ==
    /\ tx.s[p].pc = "idle"
    /\ LET need_df == items_needing_refill(shelf)
       IN  \E layers_df \in layers_for_items(inventory,
                                {need_df[n].itemid : n \in 1..Len(need_df)}) :
              LET picks == _plan_picks(need_df, layers_df)
              IN  tx' = [tx EXCEPT !.s[p] =
                            [pc |-> IF picks = <<>> THEN "done" ELSE "move",
                             kind |-> "bulk_refill", need_df |-> need_df,
                             picks |-> picks, w |-> NoMove]]
    /\ UNCHANGED <<sales, salesitems, shelf_shortage, shelf, inventory, purchase,
                   seq, now, pc, call>>

\* the inventory rows the UPDATE of bulk_refill hits that hold less than the
\* quantity it takes from them
Overdrawn(inv, picks) ==
    {r \in inv : \E n \in 1..Len(picks) :
                    /\ r.itemid = picks[n].itemid
                    /\ r.expirationdate = picks[n].exp
                    /\ r.cost_per_unit = picks[n].cpu
                    /\ r.quantity < picks[n].take_qty}

\* bulk_refill from "cur = self.conn.cursor()" to self.conn.commit(): the
\* UPDATE of inventory and the upsert into shelf, one transaction
refill_write(p) ==
    LET s == tx.s[p]
    IN  /\ s.pc = "move"
        /\ \A n \in 1..Len(s.picks) :
              ~KeyLocked(p, s.picks[n].itemid, s.picks[n].exp, s.picks[n].cpu)
        /\ LET v == UpsertShelf(<<shelf, seq.shelf>>, s.picks)
           IN  /\ inventory' = DecrementInventory(inventory, s.picks)
               /\ shelf' = v[1]
               /\ seq' = [seq EXCEPT !.shelf = v[2]]
               /\ tx' = [tx EXCEPT !.s[p] =
                            [s EXCEPT !.pc = "done",
                                      !.w = Moved(@, inventory, inventory', shelf, v[1],
                                                  Overdrawn(inventory, s.picks) # {})]]
        /\ UNCHANGED <<sales, salesitems, shelf_shortage, purchase, now, pc, call>>

\* ShelfHandler.restock_item up to the SELECT of the layers: the KPI read,
\* resolve_shortages and the layer listing
item_read(p, itemid) ==
    LET current   == SumQty({r \in shelf : r.itemid = itemid})
        threshold == item[itemid].shelfthreshold
        target    == IF item[itemid].shelfaverage # 0 THEN item[itemid].shelfaverage
                     ELSE threshold
        need      == Max(target - current, threshold - current)
        end(failed) == [pc |-> "done", kind |-> "restock_item", itemid |-> itemid,
                        failed |-> failed, w |-> NoMove]
    IN  /\ tx.s[p].pc = "idle"
        /\ IF RaisesOnNA(item[itemid].shelfthreshold)
              \/ RaisesOnNA(item[itemid].shelfaverage)
           THEN /\ tx' = [tx EXCEPT !.s[p] = end(TRUE)]
                /\ UNCHANGED shelf_shortage
           ELSE IF current >= threshold
           THEN /\ tx' = [tx EXCEPT !.s[p] = end(FALSE)]
                /\ UNCHANGED shelf_shortage
           ELSE \E o \in ShelfResolve(shelf_shortage, itemid, need, "AUTOSIM", now) :
                   /\ shelf_shortage' = o.out.shelf_shortage
                   /\ IF o.out.remaining <= 0
                      THEN tx' = [tx EXCEPT !.s[p] = end(FALSE)]
                      ELSE \E layers \in InventoryLayers(inventory, itemid) :
                              tx' = [tx EXCEPT !.s[p] =
                                        [pc |-> "transfer", kind |-> "restock_item",
                                         itemid |-> itemid, layers |-> layers,
                                         k |-> 1, need |-> o.out.remaining,
                                         failed |-> FALSE, w |-> NoMove]]
        /\ UNCHANGED <<sales, salesitems, shelf, inventory, purchase, seq, now, pc,
                       call>>

\* ShelfHandler.restock_item, one iteration of "for lyr in layers.itertuples()"
\* with its transfer_from_inventory, or, the loop over, the shortage ticket
\* "if need > 0"
item_transfer(p) ==
    LET s == tx.s[p]
    IN  /\ s.pc = "transfer"
        /\ IF s.k > Len(s.layers)
           THEN LET v == IF s.need > 0
                         THEN LogShortage(Store, NULLINT, s.itemid, s.need, now)
                         ELSE Store
                IN  /\ shelf_shortage' = v.shelf_shortage
                    /\ seq' = v.seq
                    /\ tx' = [tx EXCEPT !.s[p].pc = "done"]
                    /\ UNCHANGED <<inventory, shelf>>
           ELSE LET lyr  == s.layers[s.k]
                    take == Min(s.need, lyr.quantity)
                IN  /\ ~KeyLocked(p, s.itemid, lyr.expirationdate, lyr.cost_per_unit)
                    /\ \E t \in ShelfTransfer(Store, s.itemid, lyr.expirationdate, take,
                                              lyr.cost_per_unit) :
                          /\ inventory' = t.v.inventory
                          /\ shelf' = t.v.shelf
                          /\ seq' = t.v.seq
                          /\ tx' = [tx EXCEPT !.s[p] =
                                [s EXCEPT
                                   !.pc = IF t.failed \/ s.need - take <= 0
                                          THEN "done" ELSE "transfer",
                                   !.failed = t.failed,
                                   !.k = @ + 1,
                                   !.need = IF t.failed THEN @ ELSE @ - take,
                                   !.w = Moved(@, inventory, t.v.inventory, shelf,
                                               t.v.shelf, FALSE)]]
                    /\ UNCHANGED shelf_shortage
        /\ UNCHANGED <<sales, salesitems, purchase, now, pc, call>>

(***************************************************************************)
(* SpecRace: the two sessions on one shelf layer of item 1 and one         *)
(* warehouse layer of item 1.                                              *)
(***************************************************************************)
RaceShelves ==
    {ShelfOf([n \in DOMAIN LayerKeys |-> IF n = 1 THEN q ELSE 0]) :
        q \in 1..(MaxLayerQty + 1)}

RaceStocks ==
    {{r \in StockOf([n \in DOMAIN StockKeys |-> q]) : r.batchid = 1} :
        q \in 1..MaxLayerQty}

RaceLines ==
    {[itemid |-> 1, quantity |-> q, sellingprice |-> item[1].sellingprice] :
        q \in 1..MaxReqQty}

InitRace ==
    /\ sales = {}
    /\ salesitems = {}
    /\ shelf_shortage = {}
    /\ shelf \in RaceShelves
    /\ inventory \in RaceStocks
    /\ purchase = NoPurchases
    /\ seq = [Seq0 EXCEPT !.inventory = 1]
    /\ now = 1
    /\ tx = [open |-> TRUE, site |-> "race", s |-> <<Idle, Idle>>, shelf0 |-> shelf]
    /\ pc = "idle"
    /\ call = [op |-> "none"]

NextRace ==
    \/ \E p \in Sessions : \E it \in RaceLines : sale_select(p, it)
    \/ \E p \in Sessions : sale_write(p)
    \/ \E p \in Sessions : sale_commit(p)
    \/ \E p \in Sessions : refill_read(p)
    \/ \E p \in Sessions : refill_write(p)
    \/ \E p \in Sessions : \E itemid \in Items : item_read(p, itemid)
    \/ \E p \in Sessions : item_transfer(p)

SpecRace == InitRace /\ [][NextRace]_vars

(***************************************************************************)
(* SpecResolve: two sessions call resolve_shortages for the same item at   *)
(* the same time.  fetch_data and execute_command commit every statement   *)
(* on its own ("with self.conn"), so the statements of the two calls       *)
(* interleave: the SELECT of the open rows, one DELETE or UPDATE per loop  *)
(* iteration, and for ShelfHandler the trailing DELETE.  tx.s[p] holds the *)
(* locals of session p: rows (the listing it read), k (the row it is at),  *)
(* remaining.  Both calls run within one tick of the clock; when both have  *)
(* returned, one more call of either handler, for any item, runs alone.    *)
(***************************************************************************)
ResolveHandlers == {"SellingAreaHandler", "ShelfHandler"}

\* rows = self.fetch_data(SELECT shortageid, shortage_qty ...);
\* remaining = qty_need
resolve_read(p, handler, itemid, qty_need, user) ==
    /\ tx.s[p].pc = "idle"
    /\ tx.s[Other(p)].pc # "idle" => tx.s[Other(p)].itemid = itemid
    /\ \E rows \in FetchOpenShortages(shelf_shortage, itemid) :
          tx' = [tx EXCEPT !.s[p] =
                    [pc |-> "loop", kind |-> "resolve", handler |-> handler,
                     itemid |-> itemid, qty_need |-> qty_need, user |-> user,
                     rows |-> rows, k |-> 1, remaining |-> qty_need,
                     overlap |-> tx.s[Other(p)].pc = "loop"]]
    /\ UNCHANGED <<sales, salesitems, shelf_shortage, shelf, inventory, purchase,
                   seq, now, pc, call>>

\* one iteration of "for r in rows.itertuples()" that does not break: the
\* statement of row k, on the ledger as it is now
resolve_step(p) ==
    LET s    == tx.s[p]
        r    == s.rows[s.k]
        take == Take(s.remaining, r.shortage_qty)
    IN  /\ s.pc = "loop"
        /\ s.k <= Len(s.rows)
        /\ s.remaining # 0
        /\ shelf_shortage' =
              IF s.handler = "ShelfHandler"
              THEN UpdateShortage(shelf_shortage, r.shortageid, take, s.user, now)
              ELSE IF take = r.shortage_qty
              THEN DeleteShortage(shelf_shortage, r.shortageid)
              ELSE UpdateShortagePartial(shelf_shortage, r.shortageid, take,
                                         s.user, now)
        /\ tx' = [tx EXCEPT !.s[p].k = @ + 1, !.s[p].remaining = @ - take]
        /\ UNCHANGED <<sales, salesitems, shelf, inventory, purchase, seq, now,
                       pc, call>>

\* the loop is over: ShelfHandler runs DELETE FROM shelf_shortage WHERE
\* shortage_qty = 0, both return remaining
resolve_return(p) ==
    LET s == tx.s[p]
    IN  /\ s.pc = "loop"
        /\ s.k > Len(s.rows) \/ s.remaining = 0
        /\ shelf_shortage' =
              IF s.handler = "ShelfHandler" THEN DeleteZeroShortages(shelf_shortage)
              ELSE shelf_shortage
        /\ tx' = [tx EXCEPT !.s[p].pc = "done"]
        /\ call' = [op |-> "resolve_shortages", handler |-> s.handler,
                    itemid |-> s.itemid, qty_need |-> s.qty_need, user |-> s.user,
                    rows |-> s.rows, pre |-> tx.ledger0, ret |-> s.remaining,
                    ts |-> now]
        /\ UNCHANGED <<sales, salesitems, shelf, inventory, purchase, seq, now, pc>>

\* both concurrent calls have returned
BothReturned == \A p \in Sessions : tx.s[p].pc = "done"

InitResolve ==
    /\ sales = {}
    /\ salesitems = {}
    /\ shelf_shortage \in InitialLedgers
    /\ shelf = {}
    /\ inventory = {}
    /\ purchase = NoPurchases
    /\ seq = [Seq0 EXCEPT !.shelf_shortage = Cardinality(shelf_shortage), !.shelf = 0]
    /\ now = FirstResolveTime
    /\ tx = [open |-> TRUE, site |-> "resolve", s |-> <<Idle, Idle>>,
             ledger0 |-> shelf_shortage]
    /\ pc = "idle"
    /\ call = [op |-> "none"]

NextResolve ==
    \/ \E p \in Sessions : \E handler \in ResolveHandlers :
          \E i \in Items : \E n \in 0..NeedCap(i) :
              resolve_read(p, handler, i, n,
                           IF handler = "ShelfHandler" THEN "AUTOSIM"
                           ELSE "AUTO-UNIFIED")
    \/ \E p \in Sessions : resolve_step(p)
    \/ \E p \in Sessions : resolve_return(p)
    \/ /\ BothReturned
       /\ now = FirstResolveTime
       /\ \E i \in Items : \E n \in 0..NeedCap(i) :
              \/ SellingAreaHandler_resolve_shortages(i, n, "AUTO-UNIFIED")
              \/ ShelfHandler_resolve_shortages(i, n, "AUTOSIM")

SpecResolve == InitResolve /\ [][NextResolve]_vars

(***************************************************************************)
(* SpecSettle: sales have stopped.  The ledger holds the tickets the sales *)
(* logged, the shelf is empty, every warehouse row holds what the largest  *)
(* refill of its item asks for, and the shelf refills run again and again: *)
(* ShelfHandler.restock_item per item and SellingAreaHandler.bulk_refill.  *)
(* A refill that is due is run (weak fairness).                            *)
(***************************************************************************)
MaxSettleSteps == 4

SettleStock == StockOf([n \in DOMAIN StockKeys |-> NeedCap(StockKeys[n].itemid)])

InitSettle ==
    /\ sales = {}
    /\ salesitems = {}
    /\ shelf_shortage \in InitialLedgers
    /\ shelf = {}
    /\ inventory = SettleStock
    /\ purchase = NoPurchases
    /\ seq = [Seq0 EXCEPT !.shelf_shortage = Cardinality(shelf_shortage),
                          !.shelf = 0, !.inventory = Len(StockKeys)]
    /\ now = FirstResolveTime
    /\ tx = NoTx
    /\ pc = "idle"
    /\ call = [op |-> "none"]

NextSettle ==
    \/ /\ now < FirstResolveTime + MaxSettleSteps
       /\ \E i \in Items : restock_item(i)
    \/ bulk_refill

SpecSettle == InitSettle /\ [][NextSettle]_vars /\ WF_vars(NextSettle)

(***************************************************************************)
(* SpecTransfer: single transfers of a layer from the warehouse to the     *)
(* shelf, by either handler, for any layer key and quantity: the layer may *)
(* hold less than asked, or not exist, and item 2 has no slot.             *)
(***************************************************************************)

\* ShelfHandler.transfer_from_inventory(itemid, expirationdate, quantity,
\* cost_per_unit, created_by): one BEGIN/COMMIT block, rolled back by the
\* ValueError
ShelfHandler_transfer_from_inventory(itemid, expirationdate, quantity, cost_per_unit) ==
    /\ pc = "idle"
    /\ \E o \in ShelfTransfer(Store, itemid, expirationdate, quantity, cost_per_unit) :
          /\ inventory' = o.v.inventory
          /\ shelf' = o.v.shelf
          /\ seq' = o.v.seq
          /\ call' = [op |-> "transfer_from_inventory", handler |-> "ShelfHandler",
                      args |-> [itemid |-> itemid, expirationdate |-> expirationdate,
                                quantity |-> quantity, cost_per_unit |-> cost_per_unit],
                      failed |-> o.failed]
    /\ UNCHANGED <<sales, salesitems, shelf_shortage, purchase, now, tx, pc>>

\* the costs asked for: those of the stored layers and one no layer has
TransferCosts == {StockKeys[n].cost_per_unit : n \in DOMAIN StockKeys} \cup {1}

InitTransfer ==
    /\ sales = {}
    /\ salesitems = {}
    /\ shelf_shortage = {}
    /\ shelf = {}
    /\ inventory \in InitialStocks
    /\ purchase = NoPurchases
    /\ seq = [Seq0 EXCEPT !.shelf = 0, !.inventory = Len(StockKeys)]
    /\ now = 1
    /\ tx = NoTx
    /\ pc = "idle"
    /\ call = [op |-> "none"]

NextTransfer ==
    \E i \in Items : \E c \in TransferCosts : \E q \in 1..MaxReqQty :
        \/ transfer_from_inventory(i, FIX_EXPIRY, q, c)
        \/ ShelfHandler_transfer_from_inventory(i, FIX_EXPIRY, q, c)

SpecTransfer == InitTransfer /\ [][NextTransfer]_vars

(***************************************************************************)
(* SpecScenario: one sale of one line of the item priced 2.00 against its  *)
(* layers (cost 1.50, expiring 2025-01-01) and (cost 1.60, expiring        *)
(* 2025-02-01), each holding any quantity up to the bounds.                *)
(***************************************************************************)
MaxFirstLayerQty == 4

MaxSecondLayerQty == 10

MaxScenarioQty == 10

ScenarioShelves ==
    {ShelfOf([n \in DOMAIN LayerKeys |->
                 IF n = 1 THEN q1 ELSE IF n = 3 THEN q2 ELSE 0]) :
        q1 \in 0..MaxFirstLayerQty, q2 \in 0..MaxSecondLayerQty}

ScenarioCart(q) ==
    <<[itemid |-> 1, quantity |-> q, sellingprice |-> item[1].sellingprice]>>

InitScenario ==
    /\ sales = {}
    /\ salesitems = {}
    /\ shelf_shortage = {}
    /\ shelf \in ScenarioShelves
    /\ inventory = {}
    /\ purchase = NoPurchases
    /\ seq = Seq0
    /\ now = 1
    /\ tx = NoTx
    /\ pc = "idle"
    /\ call = [op |-> "none"]

NextScenario ==
    /\ sales = {}
    /\ \E q \in 1..MaxScenarioQty :
          process_sales_batch(<<[cart_items |-> ScenarioCart(q), discount_rate |-> 0]>>)

SpecScenario == InitScenario /\ [][NextScenario]_vars

(***************************************************************************)
(* Properties of the sale engine (checked under SpecSale).                 *)
(***************************************************************************)
IsSaleCall == call.op = "process_sales_batch"

SaleLines(sid) == {r \in salesitems : r.saleid = sid}

SaleShortages(sid) == {r \in shelf_shortage : r.saleid = sid}

RECURSIVE GrossOf(_)
GrossOf(rows) ==
    IF rows = {} THEN 0
    ELSE LET r == CHOOSE x \in rows : TRUE
         IN  r.quantity * r.unitprice + GrossOf(rows \ {r})

Abs(x) == IF x < 0 THEN 0 - x ELSE x

\* d is amount * rate / 100 rounded to two decimals (a whole number of
\* cents, at most half a cent away)
IsRounded2(d, amount, rate) ==
    /\ d % 10 = 0
    /\ Abs(100 * d - amount * rate) <= 500

\* the units a depletion removed from the shelf layers of its item
Fulfilled(e) == e.before - e.after

\* the depletion records of sale sid, in cart order
TraceOf(sid) == SelectSeq(call.trace, LAMBDA e : e.saleid = sid)

\* C1: every committed sale has totalamount = sum of quantity x unitprice of
\* its own salesitems rows, totaldiscount = totalamount x discountrate / 100
\* rounded to 2 decimals, finalamount = totalamount - totaldiscount, and a
\* sale with lines never keeps the placeholder totals 0/0/0.
C1_SaleTotals ==
    \A s \in sales :
        /\ s.totalamount = GrossOf(SaleLines(s.saleid))
        /\ IsRounded2(s.totaldiscount, s.totalamount, s.discountrate)
        /\ s.finalamount = s.totalamount - s.totaldiscount
        /\ SaleLines(s.saleid) # {}
              => ~(s.totalamount = 0 /\ s.totaldiscount = 0 /\ s.finalamount = 0)

\* a two-line sale, one line short of stock, whose discount had to be rounded
C1_Witness ==
    \E s \in sales :
        /\ Cardinality(SaleLines(s.saleid)) = 2
        /\ SaleShortages(s.saleid) # {}
        /\ s.totaldiscount > 0
        /\ 100 * s.totaldiscount # s.totalamount * s.discountrate

RECURSIVE ShortList(_)
ShortList(tr) ==
    IF tr = <<>> THEN <<>>
    ELSE (IF Fulfilled(Head(tr)) < Head(tr).req_qty
          THEN <<[itemname |-> item[Head(tr).itemid].itemnameenglish,
                  qty |-> Head(tr).req_qty - Fulfilled(Head(tr))]>>
          ELSE <<>>) \o ShortList(Tail(tr))

\* C2: for every cart line the salesitems row carries the requested quantity
\* and unit price whatever stock there was; a shelf_shortage row (saleid,
\* itemid, requested - fulfilled) exists exactly for the lines whose fulfilled
\* quantity is below the requested one, one row per such line, and the
\* returned entry lists the same shortages.
C2_LinesAndShortages ==
    IsSaleCall =>
        \A k \in 1..Len(call.sales) :
            LET sid  == call.saleids[k]
                cart == call.sales[k].cart_items
                tr   == TraceOf(sid)
                short == {n \in 1..Len(tr) : Fulfilled(tr[n]) < tr[n].req_qty}
            IN  /\ Len(tr) = Len(cart)
                /\ Cardinality(SaleLines(sid)) = Len(cart)
                /\ \A n \in 1..Len(cart) :
                      Cardinality({r \in SaleLines(sid) :
                                      /\ r.itemid = cart[n].itemid
                                      /\ r.quantity = cart[n].quantity
                                      /\ r.unitprice = cart[n].sellingprice})
                        = Cardinality({m \in 1..Len(cart) : cart[m] = cart[n]})
                /\ Cardinality(SaleShortages(sid)) = Cardinality(short)
                /\ \A n \in short :
                      Cardinality({r \in SaleShortages(sid) :
                                      /\ r.itemid = tr[n].itemid
                                      /\ r.shortage_qty = tr[n].req_qty - Fulfilled(tr[n])})
                        = Cardinality({m \in short :
                                          /\ tr[m].itemid = tr[n].itemid
                                          /\ tr[m].req_qty - Fulfilled(tr[m])
                                               = tr[n].req_qty - Fulfilled(tr[n])})
                /\ call.log_out[k].saleid = sid
                /\ call.log_out[k].shortages = ShortList(tr)

\* a line that asked for more than its single layer held: part is fulfilled,
\* the rest is a shortage, the row is charged on the requested quantity
C2_Witness ==
    /\ IsSaleCall
    /\ \E n \in 1..Len(call.trace) :
          LET e == call.trace[n]
          IN  /\ Len(e.rows) = 1
              /\ Fulfilled(e) > 0
              /\ Fulfilled(e) < e.req_qty
              /\ \E r \in SaleLines(e.saleid) :
                    r.itemid = e.itemid /\ r.quantity = e.req_qty
              /\ \E r \in SaleShortages(e.saleid) :
                    r.itemid = e.itemid /\ r.shortage_qty = e.req_qty - Fulfilled(e)

\* C3: for every depletion done for a sale line, fulfilled + shortfall =
\* requested, fulfilled being the units removed from the item's shelf layers;
\* fulfilled never exceeds the item's shelf stock before the call and the
\* shortfall is 0 whenever that stock covered the request.
C3_DepletionSplit ==
    IsSaleCall =>
        \A n \in 1..Len(call.trace) :
            LET e == call.trace[n]
            IN  /\ Fulfilled(e) + e.remaining = e.req_qty
                /\ Fulfilled(e) >= 0
                /\ Fulfilled(e) <= e.before
                /\ e.before >= e.req_qty => e.remaining = 0
                /\ Fulfilled(e) =
                      SeqSum([m \in 1..Len(e.touched) |-> e.touched[m].take])

\* a depletion that emptied one layer and took part of the next
C3_Witness ==
    /\ IsSaleCall
    /\ \E n \in 1..Len(call.trace) :
          LET e == call.trace[n]
          IN  /\ Len(e.touched) = 2
              /\ e.remaining = 0
              /\ e.after > 0

\* r comes before t in (expiration_date, cost_per_unit, layer_id) order
LayerBefore(r, t) ==
    \/ r.expirationdate < t.expirationdate
    \/ /\ r.expirationdate = t.expirationdate
       /\ r.cost_per_unit < t.cost_per_unit
    \/ /\ r.expirationdate = t.expirationdate
       /\ r.cost_per_unit = t.cost_per_unit
       /\ r.shelfid < t.shelfid

\* C4: a depletion touches a layer only after every layer that precedes it in
\* (expiration_date, cost_per_unit, layer_id) order has been fully consumed.
C4_StrictLayerOrder ==
    IsSaleCall =>
        \A n \in 1..Len(call.trace) :
            LET e == call.trace[n]
                row(id) == CHOOSE k \in 1..Len(e.rows) : e.rows[k].shelfid = id
            IN  \A m \in 1..Len(e.touched) :
                    \A k \in 1..Len(e.rows) :
                        LayerBefore(e.rows[k], e.rows[row(e.touched[m].shelfid)])
                          => \E j \in 1..Len(e.touched) :
                                /\ e.touched[j].shelfid = e.rows[k].shelfid
                                /\ e.touched[j].take = e.rows[k].quantity

RECURSIVE CartGross(_)
CartGross(cart) ==
    IF cart = <<>> THEN 0
    ELSE Head(cart).quantity * Head(cart).sellingprice + CartGross(Tail(cart))

\* C7: a stock shortage never fails a sale: every cart of the batch is
\* committed with a header whose total is charged on the requested
\* quantities and with one line per cart line at the requested quantity; a
\* cart that found no stock for any line has one shortage per line for the
\* full requested amount.
C7_ShortageNeverFails ==
    IsSaleCall =>
        /\ ~call.failed
        /\ \A k \in 1..Len(call.sales) :
              LET sid  == call.saleids[k]
                  cart == call.sales[k].cart_items
                  tr   == TraceOf(sid)
              IN  /\ \E s \in sales :
                        s.saleid = sid /\ s.totalamount = CartGross(cart)
                  /\ \A n \in 1..Len(cart) :
                        \E r \in SaleLines(sid) :
                            r.itemid = cart[n].itemid /\ r.quantity = cart[n].quantity
                  /\ (\A n \in 1..Len(tr) : tr[n].before = 0)
                        => /\ Cardinality(SaleShortages(sid)) = Len(cart)
                           /\ \A n \in 1..Len(cart) :
                                 \E r \in SaleShortages(sid) :
                                     /\ r.itemid = cart[n].itemid
                                     /\ r.shortage_qty = cart[n].quantity

\* a two-line cart short on its first item only, and one with no stock at all
C7_Witness ==
    /\ IsSaleCall
    /\ Len(call.sales) = 2
    /\ LET t1 == TraceOf(call.saleids[1])
           t2 == TraceOf(call.saleids[2])
       IN  /\ Len(t1) = 1 /\ Len(t2) = 1
           /\ t1[1].remaining = 0 /\ t1[1].before > 0
           /\ t2[1].before = 0
           /\ \E s \in sales : s.saleid = call.saleids[2] /\ s.totalamount > 0

\* C8: for a sale spec whose cart_items is empty, process_sales_batch inserts
\* no sale header.
C8_EmptyCartRejected ==
    IsSaleCall =>
        \A k \in 1..Len(call.sales) :
            call.sales[k].cart_items = <<>>
              => ~\E s \in sales : s.saleid = call.saleids[k]

\* the units of item i a cart requests in all
RECURSIVE Requested(_, _)
Requested(cart, i) ==
    IF cart = <<>> THEN 0
    ELSE (IF Head(cart).itemid = i THEN Head(cart).quantity ELSE 0)
         + Requested(Tail(cart), i)

\* the depletion records of item i in a trace
OfItem(tr, i) == SelectSeq(tr, LAMBDA e : e.itemid = i)

\* when the sale starts, the shelf layers of every item of its cart hold
\* exactly the units the cart requests of it
ExactStock(cart, tr) ==
    /\ cart # <<>>
    /\ \A n \in 1..Len(cart) :
          LET i == cart[n].itemid
          IN  /\ OfItem(tr, i) # <<>>
              /\ OfItem(tr, i)[1].before = Requested(cart, i)

\* C22: round trip: a sale committed against shelf layers that hold, for each
\* item of its cart, exactly the quantity the cart requests in total creates
\* no shortage record and leaves the stock of those items at 0.
C22_RoundTrip ==
    IsSaleCall =>
        \A k \in 1..Len(call.sales) :
            LET sid  == call.saleids[k]
                cart == call.sales[k].cart_items
                tr   == TraceOf(sid)
            IN  ExactStock(cart, tr) =>
                    /\ SaleShortages(sid) = {}
                    /\ \A n \in 1..Len(cart) :
                          LET es == OfItem(tr, cart[n].itemid)
                          IN  es[Len(es)].after = 0

\* a sale of two lines whose items were each held in exact quantity, one of
\* them spread over two layers
C22_Witness ==
    /\ IsSaleCall
    /\ \E k \in 1..Len(call.sales) :
          LET tr == TraceOf(call.saleids[k])
          IN  /\ Len(call.sales[k].cart_items) = 2
              /\ ExactStock(call.sales[k].cart_items, tr)
              /\ \E n \in 1..Len(tr) : Len(tr[n].touched) = 2
              /\ SaleShortages(call.saleids[k]) = {}

\* the sale of 10 units against the layers (4, 1.50, 2025-01-01) and
\* (10, 1.60, 2025-02-01) has been made
ScenarioSold ==
    /\ IsSaleCall
    /\ Len(call.sales) = 1
    /\ call.sales[1].cart_items = ScenarioCart(10)
    /\ call.pre.shelf =
          ShelfOf([n \in DOMAIN LayerKeys |->
                      IF n = 1 THEN 4 ELSE IF n = 3 THEN 10 ELSE 0])

\* C23: for the cart [(qty 10, price 2.00)] and the layers [(qty 4, cost 1.50,
\* exp 2025-01-01), (qty 10, cost 1.60, exp 2025-02-01)] the sale takes 4 from
\* the first layer, which is deleted, and 6 from the second, which keeps 4;
\* fulfilled is 10, no shortage record is created and the sale's gross is 20.00.
C23_Scenario ==
    ScenarioSold =>
        LET e == call.trace[1]
        IN  /\ e.touched = <<[shelfid |-> 1, take |-> 4], [shelfid |-> 3, take |-> 6]>>
            /\ ~\E r \in shelf : r.shelfid = 1
            /\ \E r \in shelf : /\ r.shelfid = 3
                                /\ r.quantity = 4
                                /\ r.cost_per_unit = 1600
                                /\ r.expirationdate = 20250201
            /\ Cardinality(shelf) = 1
            /\ Fulfilled(e) = 10
            /\ e.remaining = 0
            /\ shelf_shortage = {}
            /\ \E s \in sales : s.saleid = call.saleids[1] /\ s.totalamount = 20000

C23_Witness == ScenarioSold /\ Cardinality(salesitems) = 1

\* C25: a shelf layer that a sale's depletion consumes in full is kept, at
\* quantity 0: the depletion does not remove the shelf row.
C25_EmptyShelfRowKept ==
    IsSaleCall =>
        \A n \in 1..Len(call.trace) :
            LET e == call.trace[n]
            IN  \A m \in 1..Len(e.touched) :
                    (\E k \in 1..Len(e.rows) :
                        /\ e.rows[k].shelfid = e.touched[m].shelfid
                        /\ e.rows[k].quantity = e.touched[m].take)
                    => \E r \in shelf : /\ r.shelfid = e.touched[m].shelfid
                                        /\ r.quantity = 0

\* the lines of the sales k.. of a batch, in list order then cart order
RECURSIVE FlatLines(_, _)
FlatLines(batch, k) ==
    IF k > Len(batch) THEN <<>>
    ELSE [n \in 1..Len(batch[k].cart_items) |->
             [sale |-> k, line |-> batch[k].cart_items[n]]]
         \o FlatLines(batch, k + 1)

\* the shelf stock of the item of depletion n that the call's earlier
\* depletions left
StockLeftFor(tr, n) ==
    SumQty(ShelfRowsOf(call.pre.shelf, tr[n].itemid))
      - SeqSum([m \in 1..(n - 1) |->
                   IF tr[m].itemid = tr[n].itemid THEN Fulfilled(tr[m]) ELSE 0])

\* the depletions of the call that left a shortfall, in order
ShortOf(tr) == SelectSeq(tr, LAMBDA e : e.remaining > 0)

\* C30: within one process_sales_batch call the sales are taken in list
\* order and their lines in cart order, each depletion seeing the stock that
\* the earlier depletions of the call left: a line is fulfilled from what is
\* left and is short by exactly what is missing then, so of two lines on one
\* item the earlier is served first and only the later records the shortage
\* when stock covers the first but not both; the salesitems and
\* shelf_shortage rows are written in that order, each with the id of the
\* header created for its own cart.
C30_CartOrder ==
    IsSaleCall =>
        LET flat == FlatLines(call.sales, 1)
            tr   == call.trace
            sh   == ShortOf(tr)
        IN  /\ Len(tr) = Len(flat)
            /\ \A k \in 1..Len(call.sales) :
                  /\ call.saleids[k] = call.pre.seq.sales + k
                  /\ \E s \in sales :
                        /\ s.saleid = call.saleids[k]
                        /\ s.discountrate = call.sales[k].discount_rate
            /\ \A n \in 1..Len(tr) :
                  /\ tr[n].saleid = call.saleids[flat[n].sale]
                  /\ tr[n].itemid = flat[n].line.itemid
                  /\ tr[n].req_qty = flat[n].line.quantity
                  /\ tr[n].before = StockLeftFor(tr, n)
                  /\ tr[n].remaining = Max(0, tr[n].req_qty - StockLeftFor(tr, n))
                  /\ \E r \in salesitems :
                        /\ r.salesitemid = call.pre.seq.salesitems + n
                        /\ r.saleid = tr[n].saleid
                        /\ r.itemid = tr[n].itemid
                        /\ r.quantity = tr[n].req_qty
            /\ \A j \in 1..Len(sh) :
                  \E r \in shelf_shortage :
                      /\ r.shortageid = call.pre.seq.shelf_shortage + j
                      /\ r.saleid = sh[j].saleid
                      /\ r.itemid = sh[j].itemid
                      /\ r.shortage_qty = sh[j].remaining
            /\ Cardinality(shelf_shortage \ call.pre.shelf_shortage) = Len(sh)
            /\ Cardinality(salesitems \ call.pre.salesitems) = Len(tr)

\* two sales of one batch ask for the same item, the stock covers the first
\* but not both: the first is served in full, the shortage is the second's
C30_Witness ==
    /\ IsSaleCall
    /\ Len(call.sales) = 2
    /\ Len(call.trace) = 2
    /\ call.trace[1].saleid # call.trace[2].saleid
    /\ call.trace[1].itemid = call.trace[2].itemid
    /\ call.trace[1].before >= call.trace[1].req_qty
    /\ call.trace[1].before < call.trace[1].req_qty + call.trace[2].req_qty
    /\ call.trace[1].remaining = 0
    /\ SaleShortages(call.trace[1].saleid) = {}
    /\ \E r \in SaleShortages(call.trace[2].saleid) :
          r.shortage_qty = call.trace[2].remaining

(***************************************************************************)
(* Atomicity of process_sales_batch (checked under SpecPos).               *)
(***************************************************************************)
TablesOf(t) == <<t.sales, t.salesitems, t.shelf_shortage, t.shelf>>

\* units of item iid the depletion records tr took from the shelf
RECURSIVE TakenOf(_, _)
TakenOf(tr, iid) ==
    IF tr = <<>> THEN 0
    ELSE (IF Head(tr).itemid = iid THEN Fulfilled(Head(tr)) ELSE 0)
         + TakenOf(Tail(tr), iid)

IsResolveCall == call.op = "resolve_shortages"

\* the ledger row with the id of r after the call, as a set (empty: deleted)
After(r) == {p \in shelf_shortage : p.shortageid = r.shortageid}

FullyAbsorbed(r) == After(r) = {}

PartiallyAbsorbed(r) ==
    \E p \in After(r) :
        \E take \in 1..(r.shortage_qty - 1) :
            p = [r EXCEPT !.shortage_qty = r.shortage_qty - take,
                          !.resolved_qty = Coalesce(r.resolved_qty, 0) + take,
                          !.resolved_by = call.user,
                          !.resolved_at = p.resolved_at]

RECURSIVE SumShortage(_)
SumShortage(rows) ==
    IF rows = {} THEN 0
    ELSE LET r == CHOOSE x \in rows : TRUE
         IN  r.shortage_qty + SumShortage(rows \ {r})

TotalOpen(tbl, iid) == SumShortage(OpenShortages(tbl, iid))

\* C9: resolve_shortages consumes the item's open records oldest-first by
\* logged_at: a record is touched only after every older open record of the
\* item was fully absorbed; a fully absorbed record is deleted (no record is
\* left with outstanding 0); at most one record is partially absorbed, it
\* keeps outstanding = old - take > 0, has resolved_qty increased by take and
\* resolved_by set to the resolver; nothing else in the ledger changes.
C9_OldestFirst ==
    IsResolveCall =>
        LET mine == OpenShortages(call.pre, call.itemid)
        IN  /\ \A r \in call.pre \ mine : r \in shelf_shortage
            /\ \A p \in shelf_shortage :
                  /\ \E r \in call.pre : r.shortageid = p.shortageid
                  /\ p.shortage_qty > 0
            /\ \A r \in mine :
                  \/ r \in shelf_shortage
                  \/ FullyAbsorbed(r)
                  \/ PartiallyAbsorbed(r)
            /\ \A r \in mine : \A o \in mine :
                  (r \notin shelf_shortage /\ o.logged_at < r.logged_at)
                      => FullyAbsorbed(o)
            /\ Cardinality({r \in mine : ~FullyAbsorbed(r) /\ r \notin shelf_shortage}) <= 1

\* SellingAreaHandler absorbed one record whole and the next, younger one in
\* part
C9_Witness ==
    /\ IsResolveCall
    /\ call.handler = "SellingAreaHandler"
    /\ \E r, o \in OpenShortages(call.pre, call.itemid) :
          /\ o.logged_at < r.logged_at
          /\ FullyAbsorbed(o)
          /\ PartiallyAbsorbed(r)

\* C10: for qty_need >= 0 resolve_shortages returns r with 0 <= r <= qty_need,
\* r = max(0, qty_need - total open outstanding of the item before the call),
\* and the item's total open outstanding decreases by exactly qty_need - r.
C10_ReturnedRemainder ==
    IsResolveCall =>
        /\ call.ret \in 0..call.qty_need
        /\ call.ret = Max(0, call.qty_need - TotalOpen(call.pre, call.itemid))
        /\ TotalOpen(shelf_shortage, call.itemid)
              = TotalOpen(call.pre, call.itemid) - (call.qty_need - call.ret)

\* ShelfHandler absorbed all the item's open records and returned what was
\* left of the need
C10_Witness ==
    /\ IsResolveCall
    /\ call.handler = "ShelfHandler"
    /\ call.ret > 0
    /\ Len(call.rows) > 1
    /\ TotalOpen(shelf_shortage, call.itemid) = 0

C29_OpenHasNoResolvedAt ==
    \A r \in shelf_shortage :
        (r.shortage_qty > 0 /\ r.resolved = FALSE) => r.resolved_at = NULLINT

\* the outstanding and resolved quantity of every stored record
Quantities(tbl) ==
    {[shortageid |-> r.shortageid, itemid |-> r.itemid,
      shortage_qty |-> r.shortage_qty, resolved_qty |-> r.resolved_qty] : r \in tbl}

\* what a call returns and the quantities it leaves
ResolveResults(outcomes) ==
    {[rows |-> o.rows, ret |-> o.out.remaining,
      left |-> Quantities(o.out.shelf_shortage)] : o \in outcomes}

\* C38: started from the same ledger in which every record has an outstanding
\* quantity > 0, SellingAreaHandler.resolve_shortages and
\* ShelfHandler.resolve_shortages with the same (item, qty_need >= 0, user)
\* return the same value and leave the same shortage records with the same
\* outstanding and resolved quantities; the call just made has one of these
\* results.
C38_ResolversEquivalent ==
    (IsResolveCall /\ \A r \in call.pre : r.shortage_qty > 0) =>
        /\ \A i \in Items : \A n \in 0..NeedCap(i) :
              ResolveResults(SellingAreaResolve(call.pre, i, n, call.user, call.ts))
                 = ResolveResults(ShelfResolve(call.pre, i, n, call.user, call.ts))
        /\ [rows |-> call.rows, ret |-> call.ret, left |-> Quantities(shelf_shortage)]
              \in ResolveResults(SellingAreaResolve(call.pre, call.itemid,
                                     call.qty_need, call.user, call.ts))
                  \cap ResolveResults(ShelfResolve(call.pre, call.itemid,
                                     call.qty_need, call.user, call.ts))

\* a call that absorbed one record in full and a part of the next one
C38_Witness ==
    /\ IsResolveCall
    /\ \A r \in call.pre : r.shortage_qty > 0
    /\ call.qty_need > 0
    /\ \E r \in call.pre : r.itemid = call.itemid /\ ~(\E s \in shelf_shortage : s.shortageid = r.shortageid)
    /\ \E r \in call.pre : \E s \in shelf_shortage :
          /\ s.shortageid = r.shortageid
          /\ 0 < s.shortage_qty
          /\ s.shortage_qty < r.shortage_qty

(***************************************************************************)
(* Properties of the shortage ledger under sales and refills (checked      *)
(* under SpecRefill).                                                      *)
(***************************************************************************)
IsRefillSaleid(x) == x = NULLINT \/ x = DUMMY_SALEID

MovedItems ==
    IF call.op = "restock_item"
    THEN {i \in {call.itemid} : call.moved > 0}
    ELSE IF call.op = "run_cycle"
    THEN {call.log[n].itemid : n \in {k \in 1..Len(call.log) : call.log[k].moved > 0}}
    ELSE IF call.op = "bulk_refill"
    THEN {call.picks[n].itemid : n \in {k \in 1..Len(call.picks) :
                                            call.picks[k].take_qty > 0}}
    ELSE {}

\* the ledger a refill call found
LedgerBefore == IF call.op = "bulk_refill" THEN shelf_shortage ELSE call.pre.shelf_shortage

\* C13: a shelf refill (restock_item, run_cycle, bulk_refill) that moved
\* warehouse units of an item to the shelf has first resolved the item's open
\* shortages: none of the records that were open when it started is still
\* stored afterwards.
C13_ShortagesFirst ==
    \A i \in MovedItems :
        \A r \in OpenShortages(LedgerBefore, i) :
            ~\E u \in shelf_shortage : u.shortageid = r.shortageid

\* C21: a refill cycle is one atomic unit of work: when ShelfHandler.restock_item
\* fails part-way, no shortage resolution, layer move or shortage ticket written
\* by that call remains in the store.
C21_CycleAtomic ==
    (call.op = "restock_item" /\ call.failed) =>
        /\ shelf_shortage = call.pre.shelf_shortage
        /\ inventory = call.pre.inventory
        /\ shelf = call.pre.shelf

\* C24: a warehouse layer whose quantity reaches 0 is removed: after a shelf
\* refill (restock_item, run_cycle with transfer_from_inventory) the inventory
\* holds no row that the refill brought to quantity 0.
C24_EmptyLayerRemoved ==
    call.op \in {"restock_item", "run_cycle"} =>
        \A r \in inventory : r.quantity = 0 => r \in call.pre.inventory

\* the items an operation was asked to work on
ItemsOf(c) ==
    CASE c.op = "process_sales_batch" ->
            UNION {{c.sales[k].cart_items[n].itemid :
                       n \in 1..Len(c.sales[k].cart_items)} : k \in 1..Len(c.sales)}
      [] c.op = "restock_item" -> {c.itemid}
      [] c.op = "run_cycle" -> {c.below[n].itemid : n \in 1..Len(c.below)}
      [] c.op = "bulk_refill" -> {c.need_df[n].itemid : n \in 1..Len(c.need_df)}
      [] OTHER -> {}

\* the layer rows of a table that belong to none of the items
RowsOfOthers(tbl, items) == {r \in tbl : r.itemid \notin items}

\* C26: no operation changes a stock layer's cost per unit or expiration date
\* (or item, or slot) in place: a partial depletion, a transfer between tiers
\* and an upsert into an existing shelf layer change only the quantity of the
\* layers they touch, and the layers of other items are left as they were.
C26_LayerFrame ==
    [][/\ \A r \in shelf : \A u \in shelf' :
              r.shelfid = u.shelfid => [u EXCEPT !.quantity = r.quantity] = r
       /\ \A r \in inventory : \A u \in inventory' :
              r.batchid = u.batchid => [u EXCEPT !.quantity = r.quantity] = r
       /\ RowsOfOthers(shelf', ItemsOf(call')) = RowsOfOthers(shelf, ItemsOf(call'))
       /\ RowsOfOthers(inventory', ItemsOf(call'))
             = RowsOfOthers(inventory, ItemsOf(call'))]_vars

\* a bulk refill has added units to a shelf layer that was already there, after
\* a sale took part of a layer and a transfer moved warehouse units
C26_Witness ==
    /\ call.op = "bulk_refill"
    /\ \E n \in 1..Len(call.picks) :
          \E r \in shelf : /\ r.itemid = call.picks[n].itemid
                           /\ r.expirationdate = call.picks[n].exp
                           /\ r.cost_per_unit = call.picks[n].cpu
                           /\ r.locid = call.picks[n].locid
                           /\ r.quantity > call.picks[n].take_qty
    /\ sales # {}

\* C27: in every reachable state the shelf holds at most one layer per (item,
\* expiry, cost, slot): stock moved to the shelf for a key that is already
\* there is added to the existing layer, whichever path writes it.
C27_OneLayerPerKey ==
    \A r \in shelf : \A u \in shelf :
        (/\ r.itemid = u.itemid
         /\ r.expirationdate = u.expirationdate
         /\ r.cost_per_unit = u.cost_per_unit
         /\ r.locid = u.locid) => r = u

\* a transfer has added units to a shelf layer that was there before it
C27_Witness ==
    /\ call.op \in {"restock_item", "run_cycle"}
    /\ \E r \in call.pre.shelf : \E u \in shelf :
          /\ r.shelfid = u.shelfid
          /\ u.quantity > r.quantity
    /\ C27_OneLayerPerKey

\* the outstanding quantity of the open shortage records of item i
OpenShortageQty(tbl, i) == SumShortage(OpenShortages(tbl, i))

\* item i was handled by the refill run that c records
RefilledBy(c, i) ==
    \/ c.op = "restock_item" /\ c.itemid = i /\ ~c.failed
    \/ c.op = "run_cycle" /\ \E n \in 1..Len(c.log) :
                                 c.log[n].itemid = i /\ c.log[n].action # "Error"

\* C34: for an item below its shelf threshold with no warehouse stock, a run
\* of the shelf refill (restock_item, run_cycle) that directly follows another
\* run of it, no sale between, leaves the item's total open shortage quantity
\* as the earlier run left it: it neither grows nor drops, no stock having
\* been moved.
C34_RefillIdempotent ==
    [][\A i \in Items :
          (/\ RefilledBy(call, i)
           /\ RefilledBy(call', i)
           /\ call'.op = call.op
           /\ SumQty({r \in inventory : r.itemid = i}) = 0
           /\ SumQty({r \in shelf : r.itemid = i}) < item[i].shelfthreshold)
          => OpenShortageQty(shelf_shortage', i) = OpenShortageQty(shelf_shortage, i)]_vars

\* the positive warehouse stock of item i
PositiveStock(inv, i) == SumQty({r \in inv : r.itemid = i /\ r.quantity > 0})

\* the positive warehouse stock of the layer a pick names
HeldAt(inv, p) ==
    SumQty({r \in inv : /\ r.itemid = p.itemid
                        /\ r.expirationdate = p.exp
                        /\ r.cost_per_unit = p.cpu
                        /\ r.quantity > 0})

\* the units a plan takes of item i
PlannedFor(picks, i) ==
    SeqSum([n \in 1..Len(picks) |->
               IF picks[n].itemid = i THEN picks[n].take_qty ELSE 0])

\* the need the refill list holds for item i, 0 when it does not list it
NeedOf(need_df, i) ==
    SeqSum([n \in 1..Len(need_df) |->
               IF need_df[n].itemid = i THEN need_df[n].need ELSE 0])

\* C39: the shelf refill plan (_plan_picks, and the layer loop of
\* restock_item) takes the warehouse layers of an item in ascending
\* (expiration date, cost per unit) order, touches a later layer only when
\* the earlier ones are taken in full, never plans more from a layer than it
\* holds and plans in total exactly min(need, positive warehouse stock of the
\* item); an item without need gets no pick.  For restock_item: the loop
\* moves min(need, stock) units and none of its transfers asks a layer for
\* more than it holds.
C39_PlanFifoExact ==
    [][/\ call'.op = "bulk_refill" =>
            LET picks == call'.picks
            IN  /\ \A i \in Items :
                      PlannedFor(picks, i)
                         = Min(NeedOf(call'.need_df, i), PositiveStock(inventory, i))
                /\ \A n \in 1..Len(picks) :
                      /\ picks[n].take_qty > 0
                      /\ picks[n].take_qty <= HeldAt(inventory, picks[n])
                /\ \A m, n \in 1..Len(picks) :
                      (m < n /\ picks[m].itemid = picks[n].itemid) =>
                          /\ \/ picks[m].exp < picks[n].exp
                             \/ picks[m].exp = picks[n].exp /\ picks[m].cpu < picks[n].cpu
                          /\ picks[m].take_qty = HeldAt(inventory, picks[m])
       /\ (call'.op = "restock_item" /\ call'.left > 0) =>
            /\ ~call'.failed
            /\ call'.moved = Min(call'.left, PositiveStock(inventory, call'.itemid))
      ]_vars

(***************************************************************************)
(* Properties of the warehouse replenishment (checked under Spec).         *)
(***************************************************************************)
\* C14: a warehouse replenishment that sources n units of an item resolves the
\* item's open shortages with them in the same cycle: afterwards the item's
\* total open shortage is the previous total less min(n, previous total).
C14_ReplenishmentResolves ==
    call.op = "inventory_cycle" =>
        \A n \in 1..Len(call.below) :
            LET i    == call.below[n].itemid
                open == TotalOpen(call.pre, i)
            IN  TotalOpen(shelf_shortage, i) = open - Min(call.below[n].need, open)

(***************************************************************************)
(* Properties of one replenishment cycle (checked under SpecCycle).        *)
(***************************************************************************)
TotalOf(inv, i) == SumQty({r \in inv : r.itemid = i})

\* what the cycle is to bring an item to: the configured average, or the
\* configured threshold when no average is set
TargetOf(cat, i) ==
    IF cat[i].averagerequired # NULLINT THEN cat[i].averagerequired
    ELSE Coalesce(cat[i].threshold, DEFAULT_THRESHOLD)

\* C31: a replenishment cycle (stock_levels, below-threshold selection,
\* restock_items_bulk) brings every item that was below its threshold to its
\* target exactly, the configured average or the threshold when no average
\* is set, hence to at least its threshold; every layer it inserts has
\* quantity > 0, and an item at or above its threshold gets no new layer.
C31_CycleReachesTarget ==
    [][call'.op = "inventory_cycle" =>
          LET cat == call'.item
              thr(i) == Coalesce(cat[i].threshold, DEFAULT_THRESHOLD)
              new == inventory' \ inventory
          IN  /\ \A i \in Items :
                    IF TotalOf(inventory, i) < thr(i)
                    THEN /\ TotalOf(inventory', i) = TargetOf(cat, i)
                         /\ TotalOf(inventory', i) >= thr(i)
                    ELSE \A r \in new : r.itemid # i
              /\ \A r \in new : r.quantity > 0
              /\ inventory \subseteq inventory']_vars

(***************************************************************************)
(* Properties of the guarded writes (checked under SpecGuard).             *)
(***************************************************************************)
\* the rows of tbl that were not there in before and that no other session
\* wrote: name is the table's name in others, key its key column
NewRows(tbl, before, others, name, key(_)) ==
    {r \in tbl : r \notin before /\ <<name, key(r)>> \notin others}

PoidOf(r) == r.poid

PoitemidOf(r) == r.poitemid

CostidOf(r) == r.costid

BatchidOf(r) == r.batchid

SaleidOf(r) == r.saleid

\* the purchase orders a replenishment created
NewOrders(pre, others) ==
    NewRows(purchase.purchaseorders, pre.purchase.purchaseorders, others,
            "purchaseorders", PoidOf)

\* the order lines, cost records and layers a replenishment created
NewOrderRows(pre, others) ==
    NewRows(purchase.purchaseorderitems, pre.purchase.purchaseorderitems, others,
            "purchaseorderitems", PoitemidOf)
    \cup NewRows(purchase.poitemcost, pre.purchase.poitemcost, others,
                 "poitemcost", CostidOf)
    \cup NewRows(inventory, pre.inventory, others, "inventory", BatchidOf)

SuppliersOf(df_need) == {supplier_for(df_need[n].itemid) : n \in 1..Len(df_need)}

\* the call that ended last, nothing begun since
Ended(op) == pc = "idle" /\ call.op = op

\* C15: a replenishment cycle that completes creates exactly one purchase
\* order per distinct supplier among the needed items, not one per item: every
\* new layer, order line and cost record of an item carries the id of its
\* supplier's order, and a retry leaves no second order behind.  For
\* check_and_restock_all the one supplier is the one it is given.
C15_OneOrderPerSource ==
    /\ (Ended("restock_items_bulk") /\ ~call.raised) =>
          LET new == NewOrders(call.pre, call.others)
          IN  /\ Cardinality(new) = Cardinality(SuppliersOf(call.df_need))
              /\ \A sup \in SuppliersOf(call.df_need) :
                    \E po \in new :
                        /\ po.supplierid = sup
                        /\ \A r \in NewOrderRows(call.pre, call.others) :
                              supplier_for(r.itemid) = sup => r.poid = po.poid
    /\ (Ended("check_and_restock_all") /\ ~call.raised /\ call.needs # <<>>) =>
          Cardinality(purchase.purchaseorders \ call.pre.purchase.purchaseorders) = 1

C17_RepairSucceeds ==
    /\ (pc = "insert" /\ tx.clean) =>
          \A j \in 1..Len(GuardedSequences) :
              seq[GuardedSequences[j]] + 1 = MaxOf(KeysOf(Warehouse)[GuardedSequences[j]]) + 1
    /\ (pc = "pos_try" /\ tx.clean) =>
          seq.sales + 1 = MaxOf({r.saleid : r \in sales}) + 1
    /\ call.op = "restock_items_bulk" =>
          \A n \in 1..Len(call.done) : call.done[n].clean => ~call.done[n].raised
    /\ call.op = "run_bulk_test" => (call.clean => call.sale_id # NULLINT)

\* C20: a supplier group that fails does not abort its siblings: when
\* restock_items_bulk ends, every supplier group of the need has been
\* processed, whether it succeeded or failed.
C20_SiblingsProcessed ==
    call.op = "restock_items_bulk" =>
        {call.done[n].sup_id : n \in 1..Len(call.done)} = SuppliersOf(call.df_need)

\* the cost records of one purchase order
CostRecords(poid) == {c \in purchase.poitemcost : c.poid = poid}

\* C28: once a replenishment has completed (restock_items_bulk through
\* _restock_supplier, or check_and_restock_all through
\* InventoryRefillHandler.restock_item), every purchase order it created
\* carries as totalcost the sum of quantity x cost_per_unit over the cost
\* records of that order.
C28_TotalCostRolledUp ==
    /\ (Ended("restock_items_bulk") /\ ~call.raised) =>
          \A po \in NewOrders(call.pre, call.others) :
              po.totalcost = SumCost(CostRecords(po.poid))
    /\ (Ended("check_and_restock_all") /\ ~call.raised) =>
          \A po \in purchase.purchaseorders \ call.pre.purchase.purchaseorders :
              po.totalcost = SumCost(CostRecords(po.poid))

(***************************************************************************)
(* Properties of concurrent units of work (checked under SpecRace).        *)
(***************************************************************************)
\* two sales have ended, one began while the other was open, and both read
\* the same shelf layer
SalesRaced ==
    /\ tx.open
    /\ tx.site = "race"
    /\ \A p \in Sessions : tx.s[p].pc = "done" /\ tx.s[p].kind = "sale"
    /\ \E p \in Sessions : tx.s[p].overlap
    /\ \E n \in 1..Len(tx.s[1].rows) : \E m \in 1..Len(tx.s[2].rows) :
           tx.s[1].rows[n].shelfid = tx.s[2].rows[m].shelfid

\* C18: when two process_sales_batch units of work run concurrently and both
\* need the same shelf layer, both sales commit, the units the two together
\* treat as fulfilled do not exceed the units removed from the shelf, every
\* unfulfilled remainder is recorded as a shortage of its sale, and no layer's
\* quantity is negative
C18_RaceLoserShort ==
    SalesRaced =>
        /\ tx.s[1].saleid # tx.s[2].saleid
        /\ \A p \in Sessions : \E r \in sales : r.saleid = tx.s[p].saleid
        /\ tx.s[1].fulfilled + tx.s[2].fulfilled
               <= SumQty(tx.shelf0) - SumQty(shelf)
        /\ \A p \in Sessions :
               tx.s[p].remaining > 0 =>
                   \E r \in shelf_shortage :
                       /\ r.saleid = tx.s[p].saleid
                       /\ r.itemid = tx.s[p].it.itemid
                       /\ r.shortage_qty = tx.s[p].remaining
        /\ \A r \in shelf : r.quantity >= 0

\* the refill sessions that have ended
RefillsEnded ==
    {p \in Sessions : /\ tx.s[p].pc = "done"
                      /\ tx.s[p].kind \in {"bulk_refill", "restock_item"}}

\* C19: under every interleaving of two refills (bulk_refill, restock_item
\* with transfer_from_inventory) and of a refill with a sale, no decrement of a
\* warehouse layer exceeds what the layer holds when it is written, and the
\* shelf gains exactly the units the warehouse lost
C19_RefillAtomic ==
    (tx.open /\ tx.site = "race") =>
        \A p \in RefillsEnded :
            /\ ~tx.s[p].w.over
            /\ tx.s[p].w.gain = tx.s[p].w.loss

(***************************************************************************)
(* Properties of the refills once sales stopped (checked under SpecSettle). *)
(***************************************************************************)
\* item i is at or above its shelf threshold and has no open shortage
Settled(i) ==
    /\ SumQty({r \in shelf : r.itemid = i}) >= Kpi(shelf, i).shelfthreshold
    /\ OpenShortages(shelf_shortage, i) = {}

\* no refill cycle changes stock or shortage records any more: bulk_refill
\* finds no item needing a refill and returns 0, restock_item of every item
\* returns (or raises) without a write
RefillsIdle ==
    /\ items_needing_refill(shelf) = <<>>
    /\ \A i \in Items :
          \A o \in ShelfRestockItem(Store, i, "AUTOSIM", now) : o.v = Store

\* C35: with sales stopped and a warehouse that holds the stock needed,
\* repeated shelf refill cycles eventually bring every item's shelf total to
\* at least its shelf threshold with no open shortage left for it, and from
\* then on further cycles change neither stock nor shortage records: once the
\* cycles change nothing any more, every item is at or above its threshold
\* and has no open shortage.
C35_RefillsSettle == RefillsIdle => \A i \in Items : Settled(i)

(***************************************************************************)
(* Properties of concurrent resolutions (checked under SpecResolve).       *)
(***************************************************************************)
\* both concurrent calls have returned, no later call has run
ResolvesEnded == BothReturned /\ now = FirstResolveTime

\* C33: under any interleaving of two concurrent resolve_shortages calls for
\* the same item no shortage record's outstanding quantity becomes negative,
\* and once both calls returned, the item's total outstanding quantity has
\* dropped by the sum over both calls of qty_need - returned value.
C33_ConcurrentResolves ==
    /\ \A r \in shelf_shortage : r.shortage_qty >= 0
    /\ ResolvesEnded =>
          LET i == tx.s[1].itemid
          IN  SumShortage({r \in tx.ledger0 : r.itemid = i})
                - SumShortage({r \in shelf_shortage : r.itemid = i})
              = (tx.s[1].qty_need - tx.s[1].remaining)
                + (tx.s[2].qty_need - tx.s[2].remaining)

(***************************************************************************)
(* Frame of one resolution (checked under SpecResolve)                     *)
(***************************************************************************)

\* the shortage records of the items other than itemid
OtherRecords(tbl, itemid) == {r \in tbl : r.itemid # itemid}

\* C36: resolve_shortages(item X, ...) of either handler changes only open
\* shortage records of item X: the records of every other item, all sales,
\* all lines and all stock layers are the same after the call as before it.
C36_ResolveFrame ==
    [][(now' # now /\ call'.op = "resolve_shortages")
          => /\ OtherRecords(shelf_shortage', call'.itemid)
                   = OtherRecords(shelf_shortage, call'.itemid)
             /\ UNCHANGED <<sales, salesitems, shelf, inventory>>]_vars

(***************************************************************************)
(* Stock quantities (checked under Spec).                                  *)
(***************************************************************************)
\* C5: in every reachable state every warehouse (inventory) layer and every
\* shelf layer has quantity >= 0.
C5_QuantityNonNegative ==
    /\ \A r \in inventory : r.quantity >= 0
    /\ \A r \in shelf : r.quantity >= 0

\* the units a move logs in shelfentries: the quantity of a transfer that
\* did not fail, the take_qty of every pick of a bulk refill
LoggedUnits(c, i) ==
    IF c.op = "transfer_from_inventory"
    THEN (IF ~c.failed /\ c.args.itemid = i THEN c.args.quantity ELSE 0)
    ELSE SeqSum([n \in 1..Len(c.picks) |->
                    IF c.picks[n].itemid = i THEN c.picks[n].take_qty ELSE 0])

\* C32: every warehouse-to-shelf move (bulk_refill, transfer_from_inventory)
\* conserves stock: for every item the decrease of its warehouse total equals
\* the increase of its shelf total and equals the quantity logged in
\* shelfentries, also when several warehouse layers of the item share one
\* (item, expiration date, cost per unit).
C32_MoveConservesStock ==
    [][call'.op \in {"transfer_from_inventory", "bulk_refill"} =>
          \A i \in Items :
              /\ TotalOf(inventory, i) - TotalOf(inventory', i)
                    = TotalOf(shelf', i) - TotalOf(shelf, i)
              /\ TotalOf(shelf', i) - TotalOf(shelf, i) = LoggedUnits(call', i)]_vars

(***************************************************************************)
(* Properties of a failed transfer (checked under SpecTransfer)            *)
(***************************************************************************)

\* some warehouse row of the layer the call names holds the quantity asked
LayerHolds(inv, a) ==
    \E r \in inv : /\ r.itemid = a.itemid
                   /\ r.expirationdate = a.expirationdate
                   /\ r.cost_per_unit = a.cost_per_unit
                   /\ r.quantity >= a.quantity

\* C37: transfer_from_inventory fails and leaves the warehouse layers, the
\* shelf layers and shelfentries unchanged when no warehouse layer with the
\* given (item, expiration date, cost) holds the requested quantity, and the
\* transfer of SellingAreaHandler also when the item has no slot mapping.
C37_FailedTransferWritesNothing ==
    [][call'.op = "transfer_from_inventory"
          => (( \/ ~LayerHolds(inventory, call'.args)
                \/ /\ call'.handler = "SellingAreaHandler"
                   /\ item_slot[call'.args.itemid] = NULL)
                 => /\ call'.failed
                    /\ UNCHANGED <<inventory, shelf, seq>>
                    /\ \A i \in Items : LoggedUnits(call', i) = 0)]_vars

\* a transfer of ShelfHandler failed on a layer that holds stock, but less
\* than asked
C37_Witness ==
    /\ call.op = "transfer_from_inventory"
    /\ call.handler = "ShelfHandler"
    /\ call.failed
    /\ ~LayerHolds(inventory, call.args)
    /\ \E r \in inventory : /\ r.itemid = call.args.itemid
                            /\ r.cost_per_unit = call.args.cost_per_unit
                            /\ r.quantity > 0

====
